---- MODULE Spec2Model ----
(***************************************************************************)
(* A model of the GTFS ingestion pipeline of backend/src/gtfs_analytics:   *)
(* services/ingest.py (ingest_gtfs and its helpers) and services/catalog.py*)
(* (DatasetRegistry).  Tables are sequences of rows, rows are records of   *)
(* strings as csv.DictReader yields them, the file system is a partial     *)
(* function from paths to contents.                                        *)
(***************************************************************************)
EXTENDS Integers, Sequences, FiniteSets, TLC

VARIABLES
    calendar,   \* the rows of calendar.txt handed to the day-type derivation
    day_types,  \* what lines 167-172 of ingest_gtfs derive from them
    phase,      \* "input" while rows are being supplied, "built" afterwards
    registry,   \* dataset_registry.json under the output root
    clock,      \* datetime.utcnow(), counted in calls
    lastUpsert, \* history: per feed id, the record its latest upsert_feed wrote
    result,     \* what the latest call was given and what it returned or raised
    previous,   \* history: result and registry as they were before the latest call
    dirs,       \* the feed hashes h for which feeds/h/raw and feeds/h/derived exist
    files,      \* the JSON files under feeds/: <<h, area, name>> |-> rows
    runs,       \* the ingest_gtfs calls in progress: where each is, its locals
    value       \* the text handed to parse_gtfs_time, character by character

dayTypeVars == <<calendar, day_types, phase>>

registryVars == <<registry, clock, lastUpsert, result, previous>>

storeVars == <<dirs, files>>

vars == <<calendar, day_types, phase, registry, clock, lastUpsert, result, previous,
          dirs, files, runs, value>>

----------------------------------------------------------------------------
(* Python values.                                                          *)

\* int(text) for the texts the model feeds it; any other text raises ValueError.
IntText == ("0" :> 0) @@ ("1" :> 1) @@ ("-1" :> -1) @@ ("2" :> 2)

\* lexicographic order of the strings that the model sorts, as Python's sorted()
StringOrder == <<"S1", "S2", "S3", "S4">>

StrRank(s) == CHOOSE i \in 1..Len(StringOrder) : StringOrder[i] = s

\* the elements of a finite set of strings as an ascending list: sorted(set)
RECURSIVE SortedStrings(_)
SortedStrings(S) ==
    IF S = {} THEN <<>>
    ELSE LET least == CHOOSE s \in S : \A t \in S : StrRank(s) <= StrRank(t)
         IN  <<least>> \o SortedStrings(S \ {least})

Range(seq) == {seq[i] : i \in 1..Len(seq)}

----------------------------------------------------------------------------
(* Calendar normalisation and day-types: ingest.py lines 49-107.           *)

WeekdayKeys == <<"monday", "tuesday", "wednesday", "thursday", "friday">>

DayKeys == WeekdayKeys \o <<"saturday", "sunday">>

\* datetime.strptime(text, "%Y%m%d").date() as a day number; other texts raise
DateText == ("20240101" :> 1) @@ ("20240131" :> 31) @@ ("20241231" :> 366)

\* entry[key] = int(row.get(key, "0") or 0)
FlagOf(row, key) == IF row[key] = "" THEN 0 ELSE IntText[row[key]]

\* whether _normalise_calendar returns (no strptime or int raises ValueError)
CanNormalise(rows) ==
    \A i \in 1..Len(rows) :
        /\ rows[i]["start_date"] \in DOMAIN DateText
        /\ rows[i]["end_date"] \in DOMAIN DateText
        /\ \A k \in Range(DayKeys) : rows[i][k] = "" \/ rows[i][k] \in DOMAIN IntText

_normalise_calendar(rows) ==
    [i \in 1..Len(rows) |->
        [k \in DOMAIN rows[i] |->
            IF k \in {"start_date", "end_date"} THEN DateText[rows[i][k]]
            ELSE IF k \in Range(DayKeys) THEN FlagOf(rows[i], k)
            ELSE rows[i][k]]]

Sum6(row, keys) ==
    row[keys[1]] + row[keys[2]] + row[keys[3]] + row[keys[4]] + row[keys[5]] + row[keys[6]]

\* the three predicates handed to add(), lines 72, 77 and 82
IsWeekdayRow(row) ==
    /\ \A k \in Range(WeekdayKeys) : row[k] = 1
    /\ row["saturday"] = 0
    /\ row["sunday"] = 0

IsSaturdayRow(row) ==
    /\ row["saturday"] = 1
    /\ Sum6(row, WeekdayKeys \o <<"sunday">>) = 0

IsSundayRow(row) ==
    /\ row["sunday"] = 1
    /\ Sum6(row, WeekdayKeys \o <<"saturday">>) = 0

ServiceIdsOf(rows) == [i \in 1..Len(rows) |-> rows[i]["service_id"]]

\* add(): one record when some row satisfies the predicate, none otherwise;
\* service_ids are row["service_id"] of the rows the predicate selects
AddDayType(day_type_id, label, service_ids) ==
    IF service_ids # <<>>
    THEN <<[day_type_id |-> day_type_id, label |-> label, service_ids |-> service_ids]>>
    ELSE <<>>

AllDayType(service_ids) ==
    [day_type_id |-> "ALL", label |-> "Jour-type", service_ids |-> service_ids]

CanonicalDayTypes(cal) ==
    AddDayType("WEEKDAY", "Semaine", ServiceIdsOf(SelectSeq(cal, IsWeekdayRow)))
        \o AddDayType("SATURDAY", "Samedi", ServiceIdsOf(SelectSeq(cal, IsSaturdayRow)))
        \o AddDayType("SUNDAY", "Dimanche", ServiceIdsOf(SelectSeq(cal, IsSundayRow)))

\* the catch-all added after the canonical records, listing the services they leave out
_build_day_types_rest_as_all(cal) ==
    LET records == CanonicalDayTypes(cal)
        Listed(row) == \E d \in 1..Len(records) :
                           row["service_id"] \in Range(records[d]["service_ids"])
        rest == SelectSeq(cal, LAMBDA row : ~Listed(row))
    IN  IF rest = <<>> THEN records ELSE records \o <<AllDayType(ServiceIdsOf(rest))>>

_build_day_types_no_catch_all(cal) == CanonicalDayTypes(cal)

_build_day_types(cal) ==
    LET records == CanonicalDayTypes(cal)
    IN  IF records = <<>> THEN <<AllDayType(ServiceIdsOf(cal))>> ELSE records

\* row.get("service_id") of the rows where it is truthy, as a sorted set
_fallback_day_types(trips) ==
    LET service_ids ==
            SortedStrings({trips[i]["service_id"] : i \in 1..Len(trips)} \ {""})
    IN  IF service_ids = <<>> THEN <<>> ELSE <<AllDayType(service_ids)>>

\* lines 167-172 of ingest_gtfs
DeriveDayTypes(calendar_rows, trips) ==
    LET cal == IF calendar_rows # <<>> THEN _normalise_calendar(calendar_rows) ELSE <<>>
    IN  IF cal # <<>> THEN _build_day_types(cal) ELSE _fallback_day_types(trips)

----------------------------------------------------------------------------
(* DatasetRegistry: catalog.py.  The registry file is absent, or holds the *)
(* list "feeds"; a feed id is the number its hexadecimal digest denotes.   *)

NoRegistryFile == [exists |-> FALSE, feeds |-> <<>>]

\* __init__, lines 18-24: the file is created empty when it does not exist
DatasetRegistry(reg) == IF reg.exists THEN reg ELSE [exists |-> TRUE, feeds |-> <<>>]

\* load() and list_feeds(), lines 30-40
list_feeds(reg) == reg.feeds

\* sorted(feeds, key=lambda item: item["feed_id"]): a stable insertion sort
RECURSIVE SortByFeedId(_)
SortByFeedId(feeds) ==
    IF feeds = <<>> THEN <<>>
    ELSE LET rest == SortByFeedId(Tail(feeds))
             x == Head(feeds)
             Before(f) == f["feed_id"] < x["feed_id"]
             NotBefore(f) == ~Before(f)
         IN  SelectSeq(rest, Before) \o <<x>> \o SelectSeq(rest, NotBefore)

StampedRecord(metadata, now) == metadata @@ [updated_at |-> now]

upsert_feed_keeping_old_record(reg, metadata, now) ==
    [exists |-> TRUE,
     feeds |-> SortByFeedId(Append(list_feeds(reg), StampedRecord(metadata, now)))]

upsert_feed_unsorted(reg, metadata, now) ==
    LET Other(feed) == feed["feed_id"] # metadata["feed_id"]
    IN  [exists |-> TRUE,
         feeds |-> Append(SelectSeq(list_feeds(reg), Other), StampedRecord(metadata, now))]

\* upsert_feed, lines 42-49
upsert_feed(reg, metadata, now) ==
    LET Other(feed) == feed["feed_id"] # metadata["feed_id"]
        feeds == Append(SelectSeq(list_feeds(reg), Other), StampedRecord(metadata, now))
    IN  [exists |-> TRUE, feeds |-> SortByFeedId(feeds)]

StoreEmpty ==
    /\ dirs = {}
    /\ files = <<>>

RegistryUnused ==
    /\ registry = NoRegistryFile
    /\ clock = 0
    /\ lastUpsert = <<>>
    /\ result = [op |-> "none"]
    /\ previous = [result |-> [op |-> "none"], registry |-> NoRegistryFile]

----------------------------------------------------------------------------
(* SpecDayTypes: the day-type derivation over calendars of 0/1 flags.      *)

MaxCalRows == 2

\* service_id is the primary key of calendar.txt: row i carries the i-th id
CalendarRow(service_id, flags) ==
    flags @@ [service_id |-> service_id, start_date |-> "20240101", end_date |-> "20241231"]

InitDayTypes ==
    /\ calendar = <<>>
    /\ day_types = <<>>
    /\ phase = "input"
    /\ RegistryUnused
    /\ StoreEmpty
    /\ runs = <<>>
    /\ value = <<>>

AddCalendarRow ==
    /\ phase = "input"
    /\ Len(calendar) < MaxCalRows
    /\ \E flags \in [Range(DayKeys) -> {"0", "1"}] :
           calendar' = Append(calendar, CalendarRow(StringOrder[Len(calendar) + 1], flags))
    /\ UNCHANGED <<day_types, phase>>
    /\ UNCHANGED <<registryVars, storeVars, runs, value>>

BuildDayTypes ==
    /\ phase = "input"
    /\ CanNormalise(calendar)
    /\ day_types' = DeriveDayTypes(calendar, <<>>)
    /\ phase' = "built"
    /\ UNCHANGED calendar
    /\ UNCHANGED <<registryVars, storeVars, runs, value>>

NextDayTypes == AddCalendarRow \/ BuildDayTypes

SpecDayTypes == InitDayTypes /\ [][NextDayTypes]_vars

\* C9: when the calendar has rows and none of them satisfies the WEEKDAY,
\* SATURDAY or SUNDAY rule of add(), the derived index is exactly one entry,
\* "ALL", whose service list holds every service id of the calendar.
C9_CatchAllWhenNoRuleMatches ==
    (/\ phase = "built"
     /\ calendar # <<>>
     /\ \A i \in 1..Len(calendar) :
            LET row == _normalise_calendar(calendar)[i]
            IN  ~IsWeekdayRow(row) /\ ~IsSaturdayRow(row) /\ ~IsSundayRow(row))
    => /\ Len(day_types) = 1
       /\ day_types[1]["day_type_id"] = "ALL"
       /\ \A i \in 1..Len(calendar) :
              calendar[i]["service_id"] \in Range(day_types[1]["service_ids"])

C9_Witness ==
    /\ phase = "built"
    /\ Len(calendar) = 2
    /\ calendar[1]["saturday"] = "1" /\ calendar[1]["sunday"] = "1"
    /\ calendar[2]["tuesday"] = "1" /\ calendar[2]["monday"] = "0"
    /\ day_types = <<AllDayType(<<"S1", "S2">>)>>

----------------------------------------------------------------------------
(* SpecFlags: one calendar row whose flags are any text int() accepts.     *)

FlagTexts == {"", "0", "1", "-1"}

AddFlagRow ==
    /\ phase = "input"
    /\ calendar = <<>>
    /\ \E flags \in [Range(DayKeys) -> FlagTexts] :
           calendar' = <<CalendarRow("S1", flags)>>
    /\ UNCHANGED <<day_types, phase>>
    /\ UNCHANGED <<registryVars, storeVars, runs, value>>

NextFlags == AddFlagRow \/ BuildDayTypes

SpecFlags == InitDayTypes /\ [][NextFlags]_vars

ListedUnder(service_id, day_type_id) ==
    \E j \in 1..Len(day_types) :
        /\ day_types[j]["day_type_id"] = day_type_id
        /\ service_id \in Range(day_types[j]["service_ids"])

\* the flags of a raw row that are not 0, apart from the day named
OnlyDay(row, day) ==
    /\ FlagOf(row, day) = 1
    /\ \A k \in Range(DayKeys) \ {day} : FlagOf(row, k) = 0

EveryWeekdayOnly(row) ==
    /\ \A k \in Range(WeekdayKeys) : FlagOf(row, k) = 1
    /\ FlagOf(row, "saturday") = 0
    /\ FlagOf(row, "sunday") = 0

RowClassifiedAsClaimed(row) ==
    /\ ListedUnder(row["service_id"], "WEEKDAY") <=> EveryWeekdayOnly(row)
    /\ ListedUnder(row["service_id"], "SATURDAY") <=> OnlyDay(row, "saturday")
    /\ ListedUnder(row["service_id"], "SUNDAY") <=> OnlyDay(row, "sunday")
    /\ Cardinality({d \in {"WEEKDAY", "SATURDAY", "SUNDAY"} :
                        ListedUnder(row["service_id"], d)}) <= 1

\* C7: whenever a canonical day-type is produced, every calendar row is listed
\* under WEEKDAY iff monday..friday are 1 and the weekend 0, under SATURDAY iff
\* only saturday is 1, under SUNDAY iff only sunday is 1, and under at most one.
C7_RowsClassifiedByRule ==
    (/\ phase = "built"
     /\ \E j \in 1..Len(day_types) : day_types[j]["day_type_id"] # "ALL")
    => \A i \in 1..Len(calendar) : RowClassifiedAsClaimed(calendar[i])

\* the same statement for the rows whose seven flags are "0" or "1"
C7_HoldsForBinaryFlags ==
    (/\ phase = "built"
     /\ \E j \in 1..Len(day_types) : day_types[j]["day_type_id"] # "ALL")
    => \A i \in 1..Len(calendar) :
           (\A k \in Range(DayKeys) : calendar[i][k] \in {"0", "1"})
               => RowClassifiedAsClaimed(calendar[i])

----------------------------------------------------------------------------
(* SpecRegistry: sequential upsert_feed and list_feeds calls on one root,  *)
(* starting without a registry file.                                       *)

MaxCalls == 4

RegistryFeedIds == {1, 2, 3}

MetadataInputs ==
    [feed_id : RegistryFeedIds, provider : {"Agency A", "Agency B"}]

InitRegistry ==
    /\ calendar = <<>>
    /\ day_types = <<>>
    /\ phase = "idle"
    /\ RegistryUnused
    /\ StoreEmpty
    /\ runs = <<>>
    /\ value = <<>>

\* DatasetRegistry(root).upsert_feed(metadata)
UpsertFeed ==
    /\ clock < MaxCalls
    /\ \E metadata \in MetadataInputs :
           /\ registry' = upsert_feed(DatasetRegistry(registry), metadata, clock + 1)
           /\ lastUpsert' = (metadata["feed_id"] :> StampedRecord(metadata, clock + 1)) @@ lastUpsert
           /\ result' = [op |-> "upsert_feed", feed_id |-> metadata["feed_id"]]
    /\ previous' = [result |-> result, registry |-> registry]
    /\ clock' = clock + 1
    /\ UNCHANGED <<dayTypeVars, storeVars, runs, value>>

\* DatasetRegistry(root).list_feeds()
ListFeeds ==
    /\ clock < MaxCalls
    /\ registry' = DatasetRegistry(registry)
    /\ result' = [op |-> "list_feeds", feeds |-> list_feeds(registry')]
    /\ previous' = [result |-> result, registry |-> registry]
    /\ clock' = clock + 1
    /\ UNCHANGED <<lastUpsert, dayTypeVars, storeVars, runs, value>>

NextRegistry == UpsertFeed \/ ListFeeds

SpecRegistry == InitRegistry /\ [][NextRegistry]_vars

\* C5: after any sequence of upsert_feed calls from an empty registry, list_feeds
\* returns the records in strictly ascending feed_id order (so at most one per
\* id), and the record of every id ever upserted is the one its latest upsert
\* wrote (so an upsert of another id left it as it was); no other record is listed.
C5_ListIsLatestUpsertsSorted ==
    LET feeds == list_feeds(DatasetRegistry(registry))
    IN  /\ \A i, j \in 1..Len(feeds) : i < j => feeds[i]["feed_id"] < feeds[j]["feed_id"]
        /\ {feeds[i]["feed_id"] : i \in 1..Len(feeds)} = DOMAIN lastUpsert
        /\ \A i \in 1..Len(feeds) : feeds[i] = lastUpsert[feeds[i]["feed_id"]]
        /\ result["op"] = "list_feeds" => result["feeds"] = feeds

\* ids 3, 1, 2 upserted in that order and 3 upserted again: three records, sorted
C5_Witness ==
    /\ clock = 4
    /\ DOMAIN lastUpsert = {1, 2, 3}
    /\ lastUpsert[1]["updated_at"] = 2
    /\ lastUpsert[2]["updated_at"] = 3
    /\ lastUpsert[3]["updated_at"] = 4
    /\ lastUpsert[3]["provider"] = "Agency B"
    /\ Len(registry.feeds) = 3
    /\ registry.feeds[3] = lastUpsert[3]

----------------------------------------------------------------------------
(* Archives.  An archive is what zip_path holds: whether it is a zip at    *)
(* all, the names of its members, and the rows of each member table.       *)

GTFS_REQUIRED_FILES == <<"trips.txt", "stop_times.txt", "stops.txt">>

\* name[:-4] of the members whose name ends with ".txt"
TableOfFile ==
    ("trips.txt" :> "trips") @@ ("stop_times.txt" :> "stop_times")
        @@ ("stops.txt" :> "stops") @@ ("agency.txt" :> "agency")
        @@ ("calendar.txt" :> "calendar") @@ ("calendar_dates.txt" :> "calendar_dates")

TripRow(service_id) ==
    [route_id |-> "R1", service_id |-> service_id, trip_id |-> "T1", direction_id |-> "0"]

StopTimeRow ==
    [trip_id |-> "T1", departure_time |-> "06:00:00", stop_id |-> "P1", stop_sequence |-> "1"]

StopRow(stop_lat) ==
    [stop_id |-> "P1", stop_name |-> "Stop 1", stop_lat |-> stop_lat, stop_lon |-> "2.3522"]

CalendarDateRow(service_id, exception_type) ==
    [service_id |-> service_id, date |-> "20240131", exception_type |-> exception_type]

WeekdayFlags == [k \in Range(DayKeys) |-> IF k \in Range(WeekdayKeys) THEN "1" ELSE "0"]

TripsChoices == {<<>>, <<TripRow("S2")>>}

StopsChoices == {<<StopRow("48.8566")>>, <<StopRow("north")>>}

CalendarChoices ==
    {<<>>,
     <<CalendarRow("S1", WeekdayFlags)>>,
     <<[CalendarRow("S1", WeekdayFlags) EXCEPT !["start_date"] = "2024-01-01"]>>}

CalendarDatesChoices == {<<>>, <<CalendarDateRow("S1", "1")>>, <<CalendarDateRow("S1", "2")>>}

NoRows == [f \in DOMAIN TableOfFile |-> <<>>]

\* a file that is not a zip archive
CorruptArchive == [zip |-> FALSE, names |-> {}, rows |-> NoRows]

\* a zip with README.md and the required members other than those in absent
IncompleteArchive(absent) ==
    [zip |-> TRUE, names |-> ({"README.md"} \cup Range(GTFS_REQUIRED_FILES)) \ absent,
     rows |-> NoRows]

\* a zip with every required member; an optional table is a member when it has rows
CompleteArchive(trips, stops, cal, dates) ==
    [zip |-> TRUE,
     names |-> {"README.md", "agency.txt"} \cup Range(GTFS_REQUIRED_FILES)
                 \cup (IF cal # <<>> THEN {"calendar.txt"} ELSE {})
                 \cup (IF dates # <<>> THEN {"calendar_dates.txt"} ELSE {}),
     rows |-> [NoRows EXCEPT !["trips.txt"] = trips,
                             !["stop_times.txt"] = <<StopTimeRow>>,
                             !["stops.txt"] = stops,
                             !["agency.txt"] = <<[agency_name |-> "Sample Agency"]>>,
                             !["calendar.txt"] = cal,
                             !["calendar_dates.txt"] = dates]]

Archives ==
    {CorruptArchive}
        \cup {IncompleteArchive(absent) : absent \in (SUBSET Range(GTFS_REQUIRED_FILES)) \ {{}}}
        \cup {CompleteArchive(trips, stops, cal, dates) :
                  trips \in TripsChoices, stops \in StopsChoices,
                  cal \in CalendarChoices, dates \in CalendarDatesChoices}

RECURSIVE SetToSeq(_)
SetToSeq(S) ==
    IF S = {} THEN <<>>
    ELSE LET x == CHOOSE y \in S : TRUE IN <<x>> \o SetToSeq(S \ {x})

ArchiveList == SetToSeq(Archives)

ArchiveNumber(archive) == CHOOSE i \in 1..Len(ArchiveList) : ArchiveList[i] = archive

\* hashlib.sha1 of the bytes, as the number the hexadecimal digest denotes: the
\* same bytes give the same digest, different archives of the model different
\* digests, in an order unrelated to the archives' own
_hash_file(archive) == (ArchiveNumber(archive) * 37) % 101

----------------------------------------------------------------------------
(* ingest_gtfs, ingest.py lines 138-217, step by step.                     *)

\* missing = [name for name in GTFS_REQUIRED_FILES if name not in names]
MissingFiles(archive) ==
    LET Absent(name) == name \notin archive.names
    IN  SelectSeq(GTFS_REQUIRED_FILES, Absent)

\* tables[name[:-4]] = _read_gtfs_table(archive, name) for the ".txt" members
Tables(archive) ==
    [t \in {TableOfFile[n] : n \in archive.names \cap DOMAIN TableOfFile} |->
        archive.rows[CHOOSE n \in archive.names \cap DOMAIN TableOfFile : TableOfFile[n] = t]]

\* tables.get(name) or []
TableRows(archive, t) ==
    IF t \in DOMAIN Tables(archive) THEN Tables(archive)[t] ELSE <<>>

\* float(text) in ten-thousandths of a degree; any other text raises ValueError
FloatText ==
    ("48.8566" :> 488566) @@ ("2.3522" :> 23522) @@ ("48.858" :> 488580)
        @@ ("2.36" :> 23600) @@ ("0" :> 0)

\* float(stop.get(key, "0") or 0.0)
CoordinateOf(stop, key) == IF stop[key] = "" THEN 0 ELSE FloatText[stop[key]]

CanEnrichStops(stops) ==
    \A i \in 1..Len(stops) :
        \A key \in {"stop_lon", "stop_lat"} :
            stops[i][key] = "" \/ stops[i][key] \in DOMAIN FloatText

\* stops_enriched, lines 179-189
StopsEnriched(stops, feed_hash) ==
    [i \in 1..Len(stops) |->
        [stop_id |-> stops[i]["stop_id"], name |-> stops[i]["stop_name"],
         lon |-> CoordinateOf(stops[i], "stop_lon"),
         lat |-> CoordinateOf(stops[i], "stop_lat"), feed_id |-> feed_hash]]

\* None, as a day number
NoDate == 0

SetMin(S) == CHOOSE x \in S : \A y \in S : x <= y

SetMax(S) == CHOOSE x \in S : \A y \in S : y <= x

\* a window over every parsable calendar_dates date, whatever its exception_type
_compute_validity_any_exception(cal, calendar_dates) ==
    IF cal # <<>>
    THEN <<SetMin({cal[i]["start_date"] : i \in 1..Len(cal)}),
           SetMax({cal[i]["end_date"] : i \in 1..Len(cal)})>>
    ELSE LET dates == {DateText[calendar_dates[i]["date"]] :
                          i \in {j \in 1..Len(calendar_dates) :
                                    calendar_dates[j]["date"] \in DOMAIN DateText}}
         IN  IF dates # {} THEN <<SetMin(dates), SetMax(dates)>> ELSE <<NoDate, NoDate>>

\* _compute_validity, lines 110-135, on the normalised calendar
_compute_validity(cal, calendar_dates) ==
    IF cal # <<>>
    THEN <<SetMin({cal[i]["start_date"] : i \in 1..Len(cal)}),
           SetMax({cal[i]["end_date"] : i \in 1..Len(cal)})>>
    ELSE LET added == {i \in 1..Len(calendar_dates) :
                          /\ calendar_dates[i]["date"] \in DOMAIN DateText
                          /\ calendar_dates[i]["exception_type"] \in {"", "1"}}
             dates == {DateText[calendar_dates[i]["date"]] : i \in added}
         IN  IF dates # {} THEN <<SetMin(dates), SetMax(dates)>> ELSE <<NoDate, NoDate>>

\* date.isoformat(), and None
IsoFormat(day) ==
    IF day = NoDate THEN "null"
    ELSE ((1 :> "2024-01-01") @@ (31 :> "2024-01-31") @@ (366 :> "2024-12-31"))[day]

NormalisedCalendar(archive) ==
    IF TableRows(archive, "calendar") # <<>>
    THEN _normalise_calendar(TableRows(archive, "calendar"))
    ELSE <<>>

\* the fields dim_feed.json and the registry record share, lines 192-214
FeedSummary(archive, feed_hash) ==
    LET agency == TableRows(archive, "agency")
        validity == _compute_validity(NormalisedCalendar(archive),
                                      TableRows(archive, "calendar_dates"))
    IN  [feed_id |-> feed_hash,
         provider |-> IF agency # <<>> THEN agency[1]["agency_name"] ELSE "null",
         validity_start |-> IsoFormat(validity[1]),
         validity_end |-> IsoFormat(validity[2]),
         version_hash |-> feed_hash]

\* one directory for every feed, whatever its content hash
FeedDirShared(feed_hash) == 0

\* feed_dir = output_root / "feeds" / feed_hash
FeedDir(feed_hash) == feed_hash

\* lines 174-175: one raw/<table>.json per table
RawFile(archive, feed_hash, t) ==
    <<FeedDir(feed_hash), "raw", t>> :> Tables(archive)[t]

RawFiles(archive, feed_hash) ==
    [path \in {<<FeedDir(feed_hash), "raw", t>> : t \in DOMAIN Tables(archive)} |->
        Tables(archive)[path[3]]]

\* line 177
DimCalendarFile(archive, feed_hash) ==
    <<FeedDir(feed_hash), "derived", "dim_calendar">> :>
        DeriveDayTypes(TableRows(archive, "calendar"), TableRows(archive, "trips"))

\* line 190
DimStopFile(archive, feed_hash) ==
    <<FeedDir(feed_hash), "derived", "dim_stop">> :>
        StopsEnriched(Tables(archive)["stops"], feed_hash)

\* line 204
DimFeedFile(archive, feed_hash) ==
    <<FeedDir(feed_hash), "derived", "dim_feed">> :> <<FeedSummary(archive, feed_hash)>>

\* the metadata handed to upsert_feed, lines 206-215
RegistryMetadata(archive, feed_hash, zip_path) ==
    FeedSummary(archive, feed_hash) @@ [source_path |-> zip_path]

\* where ingest_gtfs stops: the exception it raises, or "returned"
IngestOutcome(archive) ==
    IF ~archive.zip THEN "BadZipFile"
    ELSE IF MissingFiles(archive) # <<>> THEN "ValueError: Missing GTFS files"
    ELSE IF ~CanNormalise(TableRows(archive, "calendar")) THEN "ValueError: strptime"
    ELSE IF ~CanEnrichStops(Tables(archive)["stops"]) THEN "ValueError: float"
    ELSE "returned"

\* the files ingest_gtfs has written when it stops
FilesWritten(archive, feed_hash) ==
    LET outcome == IngestOutcome(archive)
    IN  IF outcome = "returned"
        THEN DimFeedFile(archive, feed_hash) @@ DimStopFile(archive, feed_hash)
                 @@ DimCalendarFile(archive, feed_hash) @@ RawFiles(archive, feed_hash)
        ELSE IF outcome = "ValueError: float"
        THEN DimCalendarFile(archive, feed_hash) @@ RawFiles(archive, feed_hash)
        ELSE <<>>

----------------------------------------------------------------------------
(* Spec: sequential ingest_gtfs calls on one output root.                  *)

MaxIngests == 2

ZipPaths == {"a.zip", "b.zip"}

Init ==
    /\ calendar = <<>>
    /\ day_types = <<>>
    /\ phase = "idle"
    /\ RegistryUnused
    /\ StoreEmpty
    /\ runs = <<>>
    /\ value = <<>>

\* ingest_gtfs(zip_path) where zip_path does not exist: lines 145-146
IngestNoFile ==
    /\ clock < MaxIngests
    /\ \E zip_path \in ZipPaths :
           result' = [op |-> "ingest_gtfs", zip_path |-> zip_path, archive |-> CorruptArchive,
                      outcome |-> "FileNotFoundError", feed_id |-> 0, missing |-> <<>>]
    /\ previous' = [result |-> result, registry |-> registry]
    /\ clock' = clock + 1
    /\ UNCHANGED <<registry, lastUpsert, storeVars, dayTypeVars, runs, value>>

\* ingest_gtfs(zip_path) where zip_path holds archive: lines 148-217
Ingest ==
    /\ clock < MaxIngests
    /\ \E zip_path \in ZipPaths, archive \in Archives :
           LET feed_hash == _hash_file(archive)
               outcome == IngestOutcome(archive)
               metadata == RegistryMetadata(archive, feed_hash, zip_path)
           IN  /\ dirs' = dirs \cup {FeedDir(feed_hash)}
               /\ files' = FilesWritten(archive, feed_hash) @@ files
               /\ IF outcome = "returned"
                  THEN /\ registry' = upsert_feed(DatasetRegistry(registry), metadata, clock + 1)
                       /\ lastUpsert' = (feed_hash :> StampedRecord(metadata, clock + 1)) @@ lastUpsert
                  ELSE UNCHANGED <<registry, lastUpsert>>
               /\ result' = [op |-> "ingest_gtfs", zip_path |-> zip_path, archive |-> archive,
                             outcome |-> outcome, feed_id |-> feed_hash,
                             missing |-> IF archive.zip THEN MissingFiles(archive) ELSE <<>>]
    /\ previous' = [result |-> result, registry |-> registry]
    /\ clock' = clock + 1
    /\ UNCHANGED <<dayTypeVars, runs, value>>

Next == Ingest \/ IngestNoFile

Spec == Init /\ [][Next]_vars

IngestCalled == result["op"] = "ingest_gtfs" /\ result["outcome"] # "FileNotFoundError"

IngestReturned == result["op"] = "ingest_gtfs" /\ result["outcome"] = "returned"

RecordsOf(feed_id) ==
    {i \in 1..Len(list_feeds(DatasetRegistry(registry))) :
        list_feeds(DatasetRegistry(registry))[i]["feed_id"] = feed_id}

\* C1: two ingest_gtfs calls in sequence on the same archive bytes return the
\* same feed_id, and list_feeds then holds exactly one record with that id.
C1_ReingestIsIdempotent ==
    (/\ IngestReturned
     /\ previous.result["op"] = "ingest_gtfs"
     /\ previous.result["outcome"] = "returned"
     /\ previous.result["archive"] = result["archive"])
    => /\ result["feed_id"] = previous.result["feed_id"]
       /\ Cardinality(RecordsOf(result["feed_id"])) = 1

\* the same bytes ingested from a.zip and then from b.zip: one record, the later one
C1_Witness ==
    /\ IngestReturned
    /\ previous.result["op"] = "ingest_gtfs"
    /\ previous.result["outcome"] = "returned"
    /\ previous.result["archive"] = result["archive"]
    /\ previous.result["zip_path"] = "a.zip"
    /\ result["zip_path"] = "b.zip"
    /\ Len(registry.feeds) = 1
    /\ registry.feeds[1]["source_path"] = "b.zip"
    /\ registry.feeds[1]["updated_at"] = 2

\* C2: ingest_gtfs of a zip lacking required files raises an error naming every
\* missing file, and afterwards feeds/<hash> does not exist and the registry is
\* as it was.
C2_MissingTableLeavesNoDirectory ==
    (/\ IngestCalled
     /\ result["archive"].zip
     /\ Range(GTFS_REQUIRED_FILES) \ result["archive"].names # {})
    => /\ result["outcome"] = "ValueError: Missing GTFS files"
       /\ Range(result["missing"]) = Range(GTFS_REQUIRED_FILES) \ result["archive"].names
       /\ FeedDir(result["feed_id"]) \notin dirs
       /\ registry = previous.registry

\* the paths of a complete snapshot: every raw table and the three derived files
SnapshotPaths(archive, feed_hash) ==
    {<<FeedDir(feed_hash), "raw", t>> : t \in DOMAIN Tables(archive)}
        \cup {<<FeedDir(feed_hash), "derived", name>> :
                  name \in {"dim_calendar", "dim_stop", "dim_feed"}}

FilesUnder(feed_dir) == {path \in DOMAIN files : path[1] = feed_dir}

\* C3: after ingest_gtfs has raised, the feed directory of that archive holds
\* either every file of the snapshot or no file at all.
C3_FailedIngestLeavesAllOrNothing ==
    (IngestCalled /\ result["outcome"] # "returned")
    => \/ FilesUnder(FeedDir(result["feed_id"])) = {}
       \/ FilesUnder(FeedDir(result["feed_id"]))
              = SnapshotPaths(result["archive"], result["feed_id"])

ServiceIdsIn(rows) == {rows[i]["service_id"] : i \in 1..Len(rows)} \ {""}

DimCalendarOf(feed_hash) == files[<<FeedDir(feed_hash), "derived", "dim_calendar">>]

\* C8: after ingest_gtfs has returned for an archive that names a service in
\* calendar, calendar_dates or trips, dim_calendar is not empty.
C8_DayTypeIndexNonEmpty ==
    (/\ IngestReturned
     /\ \E t \in {"calendar", "calendar_dates", "trips"} :
            ServiceIdsIn(TableRows(result["archive"], t)) # {})
    => DimCalendarOf(result["feed_id"]) # <<>>

AddedDates(archive) ==
    LET Added(row) == row["exception_type"] = "1"
    IN  ServiceIdsIn(SelectSeq(TableRows(archive, "calendar_dates"), Added))

\* C10: without calendar rows (and with at least one added exception date),
\* dim_calendar is exactly one entry, "ALL", whose members are the service ids
\* of the calendar_dates rows with exception_type 1.
C10_FallbackListsAddedDates ==
    (/\ IngestReturned
     /\ TableRows(result["archive"], "calendar") = <<>>
     /\ AddedDates(result["archive"]) # {})
    => LET index == DimCalendarOf(result["feed_id"])
       IN  /\ Len(index) = 1
           /\ index[1]["day_type_id"] = "ALL"
           /\ Range(index[1]["service_ids"]) = AddedDates(result["archive"])

----------------------------------------------------------------------------
(* SpecConc: two ingest_gtfs calls on one output root, running at the same *)
(* time.  Each call advances one statement with an effect on the shared    *)
(* file system at a time; nothing in ingest.py or catalog.py takes a lock. *)

\* the two concurrent callers
Runs == {1, 2}

\* the zip_path argument of each caller
ZipPathOf(p) == IF p = 1 THEN "a.zip" ELSE "b.zip"

ConcArchives ==
    {CorruptArchive,
     IncompleteArchive({"stops.txt"}),
     CompleteArchive(<<>>, <<StopRow("48.8566")>>, <<>>, <<>>),
     CompleteArchive(<<TripRow("S2")>>, <<StopRow("48.8566")>>, <<>>,
                     <<CalendarDateRow("S1", "1")>>),
     CompleteArchive(<<TripRow("S2")>>, <<StopRow("north")>>, <<>>, <<>>)}

\* archive.namelist() of the model's archives lists the tables in this order
MemberOrder == <<"agency", "calendar", "calendar_dates", "stop_times", "stops", "trips">>

\* tables.items(), lines 161-165 and 174
TableList(archive) ==
    LET Member(t) == t \in DOMAIN Tables(archive)
    IN  SelectSeq(MemberOrder, Member)

IdleRun ==
    [pc |-> "idle", archive |-> CorruptArchive, feed_hash |-> 0, todo |-> <<>>,
     loaded |-> <<>>, error |-> "none"]

InitConc ==
    /\ calendar = <<>>
    /\ day_types = <<>>
    /\ phase = "idle"
    /\ RegistryUnused
    /\ StoreEmpty
    /\ runs = [p \in Runs |-> IdleRun]
    /\ value = <<>>

Goto(p, label) == runs' = [runs EXCEPT ![p].pc = label]

Raise(p, exception) == runs' = [runs EXCEPT ![p].pc = "failed", ![p].error = exception]

\* ingest_gtfs(zip_path) is called on an existing file: lines 141-148
Call(p) ==
    /\ runs[p].pc = "idle"
    /\ \E archive \in ConcArchives :
           runs' = [runs EXCEPT ![p] = [IdleRun EXCEPT !.pc = "mkdir",
                                                       !.archive = archive,
                                                       !.feed_hash = _hash_file(archive)]]
    /\ UNCHANGED <<dayTypeVars, registryVars, storeVars, value>>

\* lines 149-153: raw_dir.mkdir, derived_dir.mkdir
MakeDirs(p) ==
    /\ runs[p].pc = "mkdir"
    /\ dirs' = dirs \cup {FeedDir(runs[p].feed_hash)}
    /\ Goto(p, "open")
    /\ UNCHANGED <<dayTypeVars, registryVars, files, value>>

\* lines 155-172: open the zip, check the members, read the tables, derive the
\* calendar and the day types; nothing shared is touched
OpenArchive(p) ==
    /\ runs[p].pc = "open"
    /\ LET archive == runs[p].archive
       IN  IF ~archive.zip THEN Raise(p, "BadZipFile")
           ELSE IF MissingFiles(archive) # <<>> THEN Raise(p, "ValueError: Missing GTFS files")
           ELSE IF ~CanNormalise(TableRows(archive, "calendar"))
           THEN Raise(p, "ValueError: strptime")
           ELSE runs' = [runs EXCEPT ![p].pc = "raw", ![p].todo = TableList(archive)]
    /\ UNCHANGED <<dayTypeVars, registryVars, storeVars, value>>

\* lines 174-175, one iteration: _write_json(raw_dir / f"{table_name}.json", rows)
WriteRaw(p) ==
    /\ runs[p].pc = "raw"
    /\ files' = RawFile(runs[p].archive, runs[p].feed_hash, Head(runs[p].todo)) @@ files
    /\ runs' = [runs EXCEPT ![p].todo = Tail(runs[p].todo),
                            ![p].pc = IF Tail(runs[p].todo) = <<>> THEN "dim_calendar"
                                      ELSE "raw"]
    /\ UNCHANGED <<dayTypeVars, registryVars, dirs, value>>

\* line 177
WriteDimCalendar(p) ==
    /\ runs[p].pc = "dim_calendar"
    /\ files' = DimCalendarFile(runs[p].archive, runs[p].feed_hash) @@ files
    /\ Goto(p, "dim_stop")
    /\ UNCHANGED <<dayTypeVars, registryVars, dirs, value>>

\* lines 179-190
WriteDimStop(p) ==
    /\ runs[p].pc = "dim_stop"
    /\ IF CanEnrichStops(Tables(runs[p].archive)["stops"])
       THEN /\ files' = DimStopFile(runs[p].archive, runs[p].feed_hash) @@ files
            /\ Goto(p, "dim_feed")
       ELSE /\ Raise(p, "ValueError: float")
            /\ UNCHANGED files
    /\ UNCHANGED <<dayTypeVars, registryVars, dirs, value>>

\* lines 192-204
WriteDimFeed(p) ==
    /\ runs[p].pc = "dim_feed"
    /\ files' = DimFeedFile(runs[p].archive, runs[p].feed_hash) @@ files
    /\ Goto(p, "registry")
    /\ UNCHANGED <<dayTypeVars, registryVars, dirs, value>>

\* catalog.py line 23: if not self._path.exists()
RegistryExists(p) ==
    /\ runs[p].pc = "registry"
    /\ Goto(p, IF registry.exists THEN "load" ELSE "create")
    /\ UNCHANGED <<dayTypeVars, registryVars, storeVars, value>>

\* catalog.py line 24: self._path.write_text(json.dumps({"feeds": []}))
CreateRegistry(p) ==
    /\ runs[p].pc = "create"
    /\ registry' = [exists |-> TRUE, feeds |-> <<>>]
    /\ Goto(p, "load")
    /\ UNCHANGED <<dayTypeVars, clock, lastUpsert, result, previous, storeVars, value>>

\* catalog.py line 43: registry = self.load()
LoadRegistry(p) ==
    /\ runs[p].pc = "load"
    /\ runs' = [runs EXCEPT ![p].pc = "write", ![p].loaded = registry.feeds]
    /\ UNCHANGED <<dayTypeVars, registryVars, storeVars, value>>

\* catalog.py lines 44-49, on what line 43 loaded; then ingest_gtfs returns
WriteRegistry(p) ==
    /\ runs[p].pc = "write"
    /\ registry' = upsert_feed([exists |-> TRUE, feeds |-> runs[p].loaded],
                               RegistryMetadata(runs[p].archive, runs[p].feed_hash,
                                                ZipPathOf(p)),
                               clock + 1)
    /\ clock' = clock + 1
    /\ Goto(p, "returned")
    /\ UNCHANGED <<dayTypeVars, lastUpsert, result, previous, storeVars, value>>

NextConc ==
    \E p \in Runs :
        \/ Call(p)
        \/ MakeDirs(p)
        \/ OpenArchive(p)
        \/ WriteRaw(p)
        \/ WriteDimCalendar(p)
        \/ WriteDimStop(p)
        \/ WriteDimFeed(p)
        \/ RegistryExists(p)
        \/ CreateRegistry(p)
        \/ LoadRegistry(p)
        \/ WriteRegistry(p)

SpecConc == InitConc /\ [][NextConc]_vars

AllRunsOver == \A p \in Runs : runs[p].pc \in {"returned", "failed"}

FeedIdsListed == {registry.feeds[i]["feed_id"] : i \in 1..Len(registry.feeds)}

\* C4: when two concurrent runs have each completed upsert_feed (construction of
\* the DatasetRegistry included) for different feed ids, the registry holds a
\* record for both ids.
C4_NoUpsertLost ==
    (/\ \A p \in Runs : runs[p].pc = "returned"
     /\ runs[1].feed_hash # runs[2].feed_hash)
    => \A p \in Runs : runs[p].feed_hash \in FeedIdsListed

ContentUnder(feed_dir) == [path \in FilesUnder(feed_dir) |-> files[path]]

\* C6: whatever the interleaving of two concurrent runs, every file is one that a
\* sequential ingestion of a run's archive writes into that archive's own feed
\* directory, with that content; and when both runs are over, each run's feed
\* directory holds exactly what one sequential ingestion of its archive leaves.
C6_ConcurrentRunsLeaveSequentialSnapshots ==
    /\ \A path \in DOMAIN files :
           \E p \in Runs :
               /\ runs[p].pc # "idle"
               /\ path[1] = FeedDir(runs[p].feed_hash)
               /\ path \in DOMAIN FilesWritten(runs[p].archive, runs[p].feed_hash)
               /\ files[path] = FilesWritten(runs[p].archive, runs[p].feed_hash)[path]
    /\ AllRunsOver =>
           \A p \in Runs :
               ContentUnder(FeedDir(runs[p].feed_hash))
                   = FilesWritten(runs[p].archive, runs[p].feed_hash)

\* two runs on archives of different content, both returned, both snapshots there
C6_Witness ==
    /\ \A p \in Runs : runs[p].pc = "returned"
    /\ runs[1].feed_hash # runs[2].feed_hash
    /\ \A p \in Runs : FilesUnder(FeedDir(runs[p].feed_hash)) # {}

----------------------------------------------------------------------------
(* SpecValidity: the validity window that ingest_gtfs writes to dim_feed   *)
(* and hands to the registry, over calendars and calendar_dates tables of  *)
(* a few rows.                                                             *)

MaxValidityRows == 2

ValidityDateTexts == {"20240101", "20241231"}

ValidityCalendarRow(service_id, start_date, end_date) ==
    [CalendarRow(service_id, WeekdayFlags) EXCEPT !["start_date"] = start_date,
                                                  !["end_date"] = end_date]

\* calendar_dates rows: a date that parses, is empty or does not parse; an
\* exception_type that is empty, "1" (added) or "2" (removed)
DateRowChoices ==
    {[service_id |-> "S1", date |-> d, exception_type |-> e] :
        d \in ValidityDateTexts \cup {"", "2024-01-31"}, e \in {"", "1", "2"}}

DateTables == UNION {[1..n -> DateRowChoices] : n \in 0..MaxValidityRows}

AddValidityRow ==
    /\ phase = "input"
    /\ Len(calendar) < MaxValidityRows
    /\ \E start_date \in ValidityDateTexts, end_date \in ValidityDateTexts :
           calendar' = Append(calendar,
                              ValidityCalendarRow(StringOrder[Len(calendar) + 1],
                                                  start_date, end_date))
    /\ UNCHANGED <<day_types, phase>>
    /\ UNCHANGED <<registryVars, storeVars, runs, value>>

\* lines 192-215 of ingest_gtfs for an archive with these two tables: the
\* dim_feed record and the metadata handed to upsert_feed (feed_hash is some
\* digest; the window does not depend on it)
ComputeValidity ==
    /\ phase = "input"
    /\ \E calendar_dates \in DateTables, feed_hash \in {_hash_file(CorruptArchive)} :
           LET archive == CompleteArchive(<<>>, <<StopRow("48.8566")>>, calendar,
                                          calendar_dates)
           IN  result' = [op |-> "_compute_validity",
                          calendar_dates |-> calendar_dates,
                          dim_feed |-> FeedSummary(archive, feed_hash),
                          metadata |-> RegistryMetadata(archive, feed_hash, "a.zip")]
    /\ phase' = "built"
    /\ UNCHANGED <<calendar, day_types>>
    /\ UNCHANGED <<registry, clock, lastUpsert, previous, storeVars, runs, value>>

NextValidity == AddValidityRow \/ ComputeValidity

SpecValidity == InitDayTypes /\ [][NextValidity]_vars

ValidityComputed == phase = "built" /\ result["op"] = "_compute_validity"

\* the days of the calendar_dates rows whose date parses and whose
\* exception_type is one of added_types
DaysOfType(calendar_dates, added_types) ==
    {DateText[calendar_dates[i]["date"]] :
        i \in {j \in 1..Len(calendar_dates) :
                  /\ calendar_dates[j]["date"] \in DOMAIN DateText
                  /\ calendar_dates[j]["exception_type"] \in added_types}}

\* the window as the claim words it, in ISO texts
WindowAsClaimed(calendar_rows, calendar_dates, added_types) ==
    LET days == DaysOfType(calendar_dates, added_types)
    IN  IF calendar_rows # <<>>
        THEN <<IsoFormat(SetMin({DateText[calendar_rows[i]["start_date"]] :
                                    i \in 1..Len(calendar_rows)})),
               IsoFormat(SetMax({DateText[calendar_rows[i]["end_date"]] :
                                    i \in 1..Len(calendar_rows)}))>>
        ELSE IF days # {} THEN <<IsoFormat(SetMin(days)), IsoFormat(SetMax(days))>>
        ELSE <<"null", "null">>

\* date.fromisoformat, for comparing the written texts
IsoDay == ("2024-01-01" :> 1) @@ ("2024-01-31" :> 31) @@ ("2024-12-31" :> 366)

WindowWritten(record, window) ==
    /\ record["validity_start"] = window[1]
    /\ record["validity_end"] = window[2]

WindowOrdered(record) ==
    (/\ record["validity_start"] # "null"
     /\ record["validity_end"] # "null"
     /\ \A i \in 1..Len(calendar) :
            DateText[calendar[i]["start_date"]] <= DateText[calendar[i]["end_date"]])
    => IsoDay[record["validity_start"]] <= IsoDay[record["validity_end"]]

\* C11 as stated: the window written to dim_feed and to the registry is
\* [min start_date, max end_date] over the calendar rows when there are any;
\* otherwise [min, max] over the dates of the calendar_dates entries with
\* exception_type 1 only; otherwise (null, null); and start <= end whenever
\* both are set and every calendar row has start_date <= end_date.
C11_ValidityWindowOfTypeOneOnly ==
    ValidityComputed =>
        \A record \in {result["dim_feed"], result["metadata"]} :
            /\ WindowWritten(record, WindowAsClaimed(calendar, result["calendar_dates"], {"1"}))
            /\ WindowOrdered(record)

\* C11 amended: the same, where the calendar_dates entries that count are those
\* whose date parses and whose exception_type is 1 or empty (an empty
\* exception_type is read as 1); entries of any other type are ignored.
C11_ValidityWindow ==
    ValidityComputed =>
        \A record \in {result["dim_feed"], result["metadata"]} :
            /\ WindowWritten(record,
                             WindowAsClaimed(calendar, result["calendar_dates"], {"", "1"}))
            /\ WindowOrdered(record)

\* no calendar; a removed date earlier than the only added one, which sets both ends
C11_Witness ==
    /\ ValidityComputed
    /\ calendar = <<>>
    /\ \E i, j \in 1..Len(result["calendar_dates"]) :
           /\ result["calendar_dates"][i]["exception_type"] = "2"
           /\ result["calendar_dates"][i]["date"] = "20240101"
           /\ result["calendar_dates"][j]["exception_type"] = "1"
           /\ result["calendar_dates"][j]["date"] = "20241231"
    /\ result["dim_feed"]["validity_start"] = "2024-12-31"
    /\ result["metadata"]["validity_end"] = "2024-12-31"

----------------------------------------------------------------------------
(* utils/time.py: parse_gtfs_time and format_seconds_as_time.  A text is   *)
(* the sequence of its characters.                                         *)

DigitChars == <<"0", "1", "2", "3", "4", "5", "6", "7", "8", "9">>

DigitValue == [c \in Range(DigitChars) |-> (CHOOSE i \in 1..10 : DigitChars[i] = c) - 1]

\* value.split(":")
RECURSIVE SplitOnColon(_)
SplitOnColon(text) ==
    IF \A i \in 1..Len(text) : text[i] # ":" THEN <<text>>
    ELSE LET i == CHOOSE j \in 1..Len(text) :
                      text[j] = ":" /\ \A k \in 1..(j - 1) : text[k] # ":"
         IN  <<SubSeq(text, 1, i - 1)>> \o SplitOnColon(SubSeq(text, i + 1, Len(text)))

\* the digits int() reads after an optional sign
Unsigned(part) == IF part # <<>> /\ part[1] = "-" THEN Tail(part) ELSE part

\* whether int(part) returns: an optional "-", then one digit or more
CanInt(part) ==
    /\ Unsigned(part) # <<>>
    /\ \A i \in 1..Len(Unsigned(part)) : Unsigned(part)[i] \in Range(DigitChars)

RECURSIVE IntOfDigits(_)
IntOfDigits(digits) ==
    IF digits = <<>> THEN 0
    ELSE IntOfDigits(SubSeq(digits, 1, Len(digits) - 1)) * 10 + DigitValue[digits[Len(digits)]]

\* int(part)
IntOf(part) ==
    IF part[1] = "-" THEN 0 - IntOfDigits(Unsigned(part)) ELSE IntOfDigits(part)

\* a parse that also takes HH:MM, reading the seconds as 0
parse_gtfs_time_two_parts(text) ==
    LET parts == SplitOnColon(text)
    IN  IF text = <<>> THEN [outcome |-> "ValueError", seconds |-> 0]
        ELSE IF Len(parts) \notin {2, 3} THEN [outcome |-> "ValueError", seconds |-> 0]
        ELSE IF \E i \in 1..Len(parts) : ~CanInt(parts[i])
        THEN [outcome |-> "ValueError", seconds |-> 0]
        ELSE [outcome |-> "returned",
              seconds |-> IntOf(parts[1]) * 3600 + IntOf(parts[2]) * 60
                              + (IF Len(parts) = 3 THEN IntOf(parts[3]) ELSE 0)]

\* parse_gtfs_time, lines 8-21: what it raises, or the seconds it returns
parse_gtfs_time(text) ==
    LET parts == SplitOnColon(text)
    IN  IF text = <<>> THEN [outcome |-> "ValueError", seconds |-> 0]
        ELSE IF Len(parts) # 3 THEN [outcome |-> "ValueError", seconds |-> 0]
        ELSE IF \E i \in 1..3 : ~CanInt(parts[i])
        THEN [outcome |-> "ValueError", seconds |-> 0]
        ELSE [outcome |-> "returned",
              seconds |-> IntOf(parts[1]) * 3600 + IntOf(parts[2]) * 60 + IntOf(parts[3])]

RECURSIVE DigitsOf(_)
DigitsOf(n) ==
    IF n < 10 THEN <<DigitChars[n + 1]>>
    ELSE DigitsOf(n \div 10) \o <<DigitChars[(n % 10) + 1]>>

\* f"{n:02d}"
Format02d(n) ==
    IF n < 0 THEN <<"-">> \o DigitsOf(0 - n)
    ELSE IF n < 10 THEN <<"0">> \o DigitsOf(n)
    ELSE DigitsOf(n)

\* a label on the 24-hour clock, as seconds_to_time clips
format_seconds_as_time_of_day(seconds) ==
    Format02d((seconds \div 3600) % 24) \o <<":">> \o Format02d((seconds % 3600) \div 60)

\* format_seconds_as_time, lines 24-29
format_seconds_as_time(seconds) ==
    Format02d(seconds \div 3600) \o <<":">> \o Format02d((seconds % 3600) \div 60)

----------------------------------------------------------------------------
(* SpecTime: a text is put together from components and colons, handed to  *)
(* parse_gtfs_time, and the seconds it returns to format_seconds_as_time.  *)

MaxColons == 3

TimeComponents ==
    {<<>>, <<"5">>, <<"0", "0">>, <<"0", "5">>, <<"2", "4">>, <<"3", "0">>, <<"5", "9">>,
     <<"6", "0">>, <<"x">>, <<"-", "1">>}

ColonsIn(text) == Cardinality({i \in 1..Len(text) : text[i] = ":"})

InitTime ==
    /\ calendar = <<>>
    /\ day_types = <<>>
    /\ phase = "input"
    /\ RegistryUnused
    /\ StoreEmpty
    /\ runs = <<>>
    /\ value \in TimeComponents

AddTimePart ==
    /\ phase = "input"
    /\ ColonsIn(value) < MaxColons
    /\ \E part \in TimeComponents : value' = value \o <<":">> \o part
    /\ UNCHANGED <<dayTypeVars, registryVars, storeVars, runs>>

\* parse_gtfs_time(value)
ParseTime ==
    /\ phase = "input"
    /\ result' = [op |-> "parse_gtfs_time"] @@ parse_gtfs_time(value)
    /\ phase' = "parsed"
    /\ UNCHANGED <<calendar, day_types, registry, clock, lastUpsert, previous, storeVars,
                   runs, value>>

\* format_seconds_as_time(parse_gtfs_time(value))
FormatTime ==
    /\ phase = "parsed"
    /\ result["outcome"] = "returned"
    /\ result' = [op |-> "format_seconds_as_time", seconds |-> result["seconds"],
                  label |-> format_seconds_as_time(result["seconds"])]
    /\ phase' = "formatted"
    /\ UNCHANGED <<calendar, day_types, registry, clock, lastUpsert, previous, storeVars,
                   runs, value>>

NextTime == AddTimePart \/ ParseTime \/ FormatTime

SpecTime == InitTime /\ [][NextTime]_vars

TwoDigits(text, i) == DigitValue[text[i]] * 10 + DigitValue[text[i + 1]]

\* HH:MM:SS, two digits each, hour >= 24, minutes and seconds in 0..59
ValidOver24(text) ==
    /\ Len(text) = 8
    /\ text[3] = ":" /\ text[6] = ":"
    /\ \A i \in {1, 2, 4, 5, 7, 8} : text[i] \in Range(DigitChars)
    /\ TwoDigits(text, 1) >= 24
    /\ TwoDigits(text, 4) <= 59
    /\ TwoDigits(text, 7) <= 59

\* C12: for a valid HH:MM:SS with hour >= 24, format_seconds_as_time of the
\* seconds that parse_gtfs_time returned is the text's own "HH:MM", and the
\* seconds are hours*3600 + minutes*60 + seconds, at least 86400.
C12_RoundTripKeepsOver24 ==
    (phase = "formatted" /\ ValidOver24(value))
    => /\ result["seconds"] = TwoDigits(value, 1) * 3600 + TwoDigits(value, 4) * 60
                                  + TwoDigits(value, 7)
       /\ result["seconds"] >= 86400
       /\ result["label"] = SubSeq(value, 1, 5)

\* "30:05:59" parsed and formatted
C12_Witness ==
    /\ phase = "formatted"
    /\ value = <<"3", "0", ":", "0", "5", ":", "5", "9">>
    /\ result["seconds"] = 108359
    /\ result["label"] = <<"3", "0", ":", "0", "5">>

\* a component that reads as an integer: an optional sign, then digits only
NumericComponent(part) ==
    LET digits == {i \in 1..Len(part) : part[i] \in Range(DigitChars)}
    IN  /\ digits # {}
        /\ \A i \in 1..Len(part) : i \in digits \/ (i = 1 /\ part[i] = "-")

\* C13: parse_gtfs_time raises exactly when the text is empty, does not split
\* on ":" into exactly 3 components, or has a component that is not numeric;
\* for every other text it returns a value.
C13_RaisesExactlyOnMalformed ==
    phase = "parsed" =>
        (result["outcome"] = "ValueError"
            <=> \/ Len(value) = 0
                \/ ColonsIn(value) # 2
                \/ \E i \in 1..Len(SplitOnColon(value)) :
                       ~NumericComponent(SplitOnColon(value)[i]))
        /\ result["outcome"] \in {"ValueError", "returned"}

\* "24:00" has two components and is refused
C13_Witness ==
    /\ phase = "parsed"
    /\ value = <<"2", "4", ":", "0", "0">>
    /\ result["outcome"] = "ValueError"

----------------------------------------------------------------------------
(* services/headways.py: compute_headways and compute_service_kpis over the *)
(* snapshot of one feed.  None is the empty sequence and a value v is <<v>> *)
(* wherever a field may be None.                                           *)

\* the characters of the departure_time texts of the model
TextChars ==
    ("06:00:00" :> <<"0", "6", ":", "0", "0", ":", "0", "0">>)
        @@ ("06:07:00" :> <<"0", "6", ":", "0", "7", ":", "0", "0">>)
        @@ ("06:12:00" :> <<"0", "6", ":", "1", "2", ":", "0", "0">>)
        @@ ("07:00:00" :> <<"0", "7", ":", "0", "0", ":", "0", "0">>)
        @@ ("07:30:00" :> <<"0", "7", ":", "3", "0", ":", "0", "0">>)
        @@ ("25:10:00" :> <<"2", "5", ":", "1", "0", ":", "0", "0">>)
        @@ ("" :> <<>>)

\* Python's order on the day-type, stop, route and zone identifiers of the model
TextOrder ==
    <<"", "ALL", "P1", "P2", "P9", "R1", "R2", "SATURDAY", "SUNDAY", "WEEKDAY",
      "Z1", "Z2", "Z3">>

TextRank(text) == CHOOSE i \in 1..Len(TextOrder) : TextOrder[i] = text

RemoveAt(seq, i) == SubSeq(seq, 1, i - 1) \o SubSeq(seq, i + 1, Len(seq))

\* the list as it is
Unsorted(seq) == seq

\* sorted() on a list of integers
RECURSIVE SortInts(_)
SortInts(seq) ==
    IF seq = <<>> THEN <<>>
    ELSE LET i == CHOOSE j \in 1..Len(seq) : \A k \in 1..Len(seq) : seq[j] <= seq[k]
         IN  <<seq[i]>> \o SortInts(RemoveAt(seq, i))

\* tuple comparison, left to right
KeyLess(a, b) ==
    \E k \in 1..Len(a) : a[k] < b[k] /\ \A l \in 1..(k - 1) : a[l] = b[l]

\* sorted(rows, key=...) on <<key, row>> pairs: stable, the rows returned
RECURSIVE SortByKey(_)
SortByKey(pairs) ==
    IF pairs = <<>> THEN <<>>
    ELSE LET i == CHOOSE j \in 1..Len(pairs) :
                      /\ \A k \in 1..Len(pairs) : ~KeyLess(pairs[k][1], pairs[j][1])
                      /\ \A k \in 1..(j - 1) : KeyLess(pairs[j][1], pairs[k][1])
         IN  <<pairs[i][2]>> \o SortByKey(RemoveAt(pairs, i))

\* int(r.get("stop_sequence", "0") or 0)
SequenceOf(row) == IF row["stop_sequence"] = "" THEN 0 ELSE IntText[row["stop_sequence"]]

\* the first row of the trip in the table, whatever its stop_sequence
FirstRowOfTrip(stop_times, trip_id) ==
    stop_times[CHOOSE j \in 1..Len(stop_times) :
                   /\ stop_times[j]["trip_id"] = trip_id
                   /\ \A k \in 1..(j - 1) : stop_times[k]["trip_id"] # trip_id]

\* the row _compute_trip_departures keeps for a trip: the first one in the
\* stable order by (trip_id, stop_sequence)
FirstStopTime(stop_times, trip_id) ==
    LET mine == {i \in 1..Len(stop_times) : stop_times[i]["trip_id"] = trip_id}
        i == CHOOSE j \in mine :
                 \A k \in mine :
                     \/ SequenceOf(stop_times[j]) < SequenceOf(stop_times[k])
                     \/ SequenceOf(stop_times[j]) = SequenceOf(stop_times[k]) /\ j <= k
    IN  stop_times[i]

TripsWithStopTimes(stop_times) == {stop_times[i]["trip_id"] : i \in 1..Len(stop_times)}

\* whether _compute_trip_departures returns: parse_gtfs_time raises on none of
\* the rows it keeps
CanComputeDepartures(stop_times) ==
    \A trip_id \in TripsWithStopTimes(stop_times) :
        parse_gtfs_time(TextChars[FirstStopTime(stop_times, trip_id)["departure_time"]])
            ["outcome"] = "returned"

\* _compute_trip_departures, lines 22-29
_compute_trip_departures(stop_times) ==
    [trip_id \in TripsWithStopTimes(stop_times) |->
        parse_gtfs_time(TextChars[FirstStopTime(stop_times, trip_id)["departure_time"]])
            ["seconds"]]

\* a percentile that interpolates on the values in the order given
_percentile_unsorted(values, tenths) ==
    IF values = <<>> THEN "nan"
    ELSE IF Len(values) = 1 THEN values[1] * 10
    ELSE LET position == (Len(values) - 1) * tenths
             lower == position \div 10
             upper == IF position % 10 = 0 THEN lower ELSE lower + 1
         IN  values[lower + 1] * 10 + (position % 10) * (values[upper + 1] - values[lower + 1])

\* a percentile without interpolation: the sample at the floor of the position
_percentile_lower_rank(values, tenths) ==
    IF values = <<>> THEN "nan"
    ELSE SortInts(values)[((Len(values) - 1) * tenths) \div 10 + 1] * 10

\* _percentile, lines 32-44, for the percentile tenths/10; the result is in
\* tenths of the unit of values
_percentile(values, tenths) ==
    IF values = <<>> THEN "nan"
    ELSE IF Len(values) = 1 THEN values[1] * 10
    ELSE LET sorted_values == SortInts(values)
             position == (Len(sorted_values) - 1) * tenths
             lower == position \div 10
             upper == IF position % 10 = 0 THEN lower ELSE lower + 1
         IN  IF lower = upper THEN sorted_values[lower + 1] * 10
             ELSE sorted_values[lower + 1] * 10
                      + (position % 10) * (sorted_values[upper + 1] - sorted_values[lower + 1])

\* _normalise_direction, lines 47-53
_normalise_direction(text) ==
    IF text = "" THEN <<>>
    ELSE IF text \in DOMAIN IntText THEN <<IntText[text]>>
    ELSE <<>>

\* row.get("direction_id") or -1
DirectionKey(direction) ==
    IF direction = <<>> THEN -1
    ELSE IF direction[1] = 0 THEN -1
    ELSE direction[1]

\* the trips that have a departure, whatever their service
DayTripsOfAnyService(day, trips, departures) ==
    LET Counts(trip) == trip["trip_id"] \in DOMAIN departures
    IN  SelectSeq(trips, Counts)

\* the trips of a day type that have a departure, in trips order: lines 79-85
DayTrips(day, trips, departures) ==
    LET Counts(trip) ==
            /\ trip["service_id"] \in Range(day["service_ids"])
            /\ trip["trip_id"] \in DOMAIN departures
    IN  SelectSeq(trips, Counts)

\* the keys of a defaultdict in insertion order
\* the keys as met, a key once for each time it is met
KeysAsMet(keys) == keys

RECURSIVE KeysInOrder(_)
KeysInOrder(keys) ==
    IF keys = <<>> THEN <<>>
    ELSE LET rest == KeysInOrder(SubSeq(keys, 1, Len(keys) - 1))
         IN  IF keys[Len(keys)] \in Range(rest) THEN rest
             ELSE Append(rest, keys[Len(keys)])

\* the snapshot files the two functions load: lines 65-67 and 130-132
LoadTable(feed_hash, area, name) == files[<<FeedDir(feed_hash), area, name>>]

HasTables(feed_hash) ==
    {<<FeedDir(feed_hash), "raw", "trips">>, <<FeedDir(feed_hash), "raw", "stop_times">>,
     <<FeedDir(feed_hash), "derived", "dim_calendar">>} \subseteq DOMAIN files

\* what either function does: raises, or returns its list
AnalyticsOutcome(feed_hash) ==
    IF ~HasTables(feed_hash) THEN "FileNotFoundError"
    ELSE IF ~CanComputeDepartures(LoadTable(feed_hash, "raw", "stop_times"))
    THEN "ValueError"
    ELSE "returned"

RECURSIVE Flatten(_)
Flatten(seqs) == IF seqs = <<>> THEN <<>> ELSE Head(seqs) \o Flatten(Tail(seqs))

\* lines 72-76 and 137-141: the day types that list a service
DaysWithServices(feed_hash) ==
    LET Listed(day) == day["service_ids"] # <<>>
    IN  SelectSeq(LoadTable(feed_hash, "derived", "dim_calendar"), Listed)

\* the offsets from the first departure, that one included
OffsetsFromFirst(values) == [i \in 1..Len(values) |-> values[i] - values[1]]

\* lines 93-96: the successive differences of the sorted departures
Diffs(values) == [i \in 1..(Len(values) - 1) |-> values[i + 1] - values[i]]

\* lines 78-111 for one day type; headways are in 1/600 of a minute
HeadwaysOfDay(day, feed_hash, bin_seconds) ==
    LET departures == _compute_trip_departures(LoadTable(feed_hash, "raw", "stop_times"))
        mine == DayTrips(day, LoadTable(feed_hash, "raw", "trips"), departures)
        GroupOf(trip) ==
            <<trip["route_id"], _normalise_direction(trip["direction_id"]),
              (departures[trip["trip_id"]] \div bin_seconds) * bin_seconds>>
        groups == KeysInOrder([i \in 1..Len(mine) |-> GroupOf(mine[i])])
        ValuesOf(group) ==
            LET In(trip) == GroupOf(trip) = group
                members == SelectSeq(mine, In)
            IN  SortInts([i \in 1..Len(members) |-> departures[members[i]["trip_id"]]])
    IN  [i \in 1..Len(groups) |->
            [feed_id |-> feed_hash,
             day_type_id |-> day["day_type_id"],
             route_id |-> groups[i][1],
             direction_id |-> groups[i][2],
             timebin_start |-> groups[i][3],
             timebin_label |-> format_seconds_as_time(groups[i][3]),
             departures |-> Len(ValuesOf(groups[i])),
             headway_p50_min |-> IF Diffs(ValuesOf(groups[i])) = <<>> THEN <<>>
                                 ELSE <<_percentile(Diffs(ValuesOf(groups[i])), 5)>>,
             headway_p90_min |-> IF Diffs(ValuesOf(groups[i])) = <<>> THEN <<>>
                                 ELSE <<_percentile(Diffs(ValuesOf(groups[i])), 9)>>]]

\* the sort key of lines 115-120 and 171-175, strings by their rank
HeadwayKey(row) ==
    <<TextRank(row["day_type_id"]), TextRank(row["route_id"]),
      DirectionKey(row["direction_id"]), row["timebin_start"]>>

KpiKey(row) ==
    <<TextRank(row["day_type_id"]), TextRank(row["route_id"]),
      DirectionKey(row["direction_id"])>>

\* compute_headways, lines 56-121, when it returns
compute_headways(feed_hash, timebin_minutes) ==
    LET days == DaysWithServices(feed_hash)
        results == Flatten([d \in 1..Len(days) |->
                               HeadwaysOfDay(days[d], feed_hash, timebin_minutes * 60)])
    IN  SortByKey([i \in 1..Len(results) |-> <<HeadwayKey(results[i]), results[i]>>])

\* one record per route, the directions of its trips merged
KpisOfDayWithoutDirection(day, feed_hash) ==
    LET departures == _compute_trip_departures(LoadTable(feed_hash, "raw", "stop_times"))
        mine == DayTrips(day, LoadTable(feed_hash, "raw", "trips"), departures)
        routes == KeysInOrder([i \in 1..Len(mine) |-> mine[i]["route_id"]])
        ValuesOf(route_id) ==
            LET In(trip) == trip["route_id"] = route_id
                members == SelectSeq(mine, In)
            IN  SortInts([i \in 1..Len(members) |-> departures[members[i]["trip_id"]]])
    IN  [i \in 1..Len(routes) |->
            [feed_id |-> feed_hash,
             day_type_id |-> day["day_type_id"],
             route_id |-> routes[i],
             direction_id |-> <<>>,
             first_departure |-> format_seconds_as_time(ValuesOf(routes[i])[1]),
             last_departure |->
                 format_seconds_as_time(ValuesOf(routes[i])[Len(ValuesOf(routes[i]))]),
             departures |-> Len(ValuesOf(routes[i]))]]

\* lines 143-167 for one day type
KpisOfDay(day, feed_hash) ==
    LET departures == _compute_trip_departures(LoadTable(feed_hash, "raw", "stop_times"))
        mine == DayTrips(day, LoadTable(feed_hash, "raw", "trips"), departures)
        GroupOf(trip) == <<trip["route_id"], _normalise_direction(trip["direction_id"])>>
        groups == KeysInOrder([i \in 1..Len(mine) |-> GroupOf(mine[i])])
        ValuesOf(group) ==
            LET In(trip) == GroupOf(trip) = group
                members == SelectSeq(mine, In)
            IN  SortInts([i \in 1..Len(members) |-> departures[members[i]["trip_id"]]])
    IN  [i \in 1..Len(groups) |->
            [feed_id |-> feed_hash,
             day_type_id |-> day["day_type_id"],
             route_id |-> groups[i][1],
             direction_id |-> groups[i][2],
             first_departure |-> format_seconds_as_time(ValuesOf(groups[i])[1]),
             last_departure |->
                 format_seconds_as_time(ValuesOf(groups[i])[Len(ValuesOf(groups[i]))]),
             departures |-> Len(ValuesOf(groups[i]))]]

\* compute_service_kpis, lines 124-176, when it returns
compute_service_kpis(feed_hash) ==
    LET days == DaysWithServices(feed_hash)
        records == Flatten([d \in 1..Len(days) |-> KpisOfDay(days[d], feed_hash)])
    IN  SortByKey([i \in 1..Len(records) |-> <<KpiKey(records[i]), records[i]>>])

----------------------------------------------------------------------------
(* SpecHeadways: the snapshot of a feed whose trips are added one by one,  *)
(* then one call of compute_headways or compute_service_kpis on it.        *)

MaxTrips == 3

TripIds == <<"T1", "T2", "T3", "T4", "T5">>

OnlyDayFlags(day) == [k \in Range(DayKeys) |-> IF k = day THEN "1" ELSE "0"]

\* no calendar.txt, or the weekday / saturday / sunday calendar of the tests
HeadwayCalendars ==
    {<<>>,
     <<CalendarRow("S1", WeekdayFlags), CalendarRow("S2", OnlyDayFlags("saturday")),
       CalendarRow("S3", OnlyDayFlags("sunday"))>>}

\* the feed the snapshot belongs to
SnapshotFeed == _hash_file(CompleteArchive(<<>>, <<StopRow("48.8566")>>, <<>>, <<>>))

\* a trip as the model varies it; departure_time "none" is a trip without stop_times
TripTemplate(service_id, route_id, direction_id, departure_time) ==
    [service_id |-> service_id, route_id |-> route_id, direction_id |-> direction_id,
     departure_time |-> departure_time]

TripTemplates ==
    {TripTemplate("S1", "R1", "0", t) : t \in {"06:00:00", "06:07:00", "06:12:00", "07:00:00"}}
        \cup {TripTemplate("S1", "R1", "", t) : t \in {"06:00:00", "07:00:00"}}
        \cup {TripTemplate("S1", "R1", "1", "06:00:00"),
              TripTemplate("S2", "R1", "0", "06:07:00"),
              TripTemplate("S1", "R2", "0", "06:00:00"),
              TripTemplate("S1", "R1", "0", "none"),
              TripTemplate("S1", "R1", "0", "")}

TripOf(trip_id, template) ==
    [TripRow(template["service_id"]) EXCEPT !["trip_id"] = trip_id,
                                            !["route_id"] = template["route_id"],
                                            !["direction_id"] = template["direction_id"]]

\* the trip's stop_times rows as the file lists them: the second stop first
StopTimesOf(trip_id, template) ==
    IF template["departure_time"] = "none" THEN <<>>
    ELSE <<[StopTimeRow EXCEPT !["trip_id"] = trip_id, !["stop_sequence"] = "2",
                               !["departure_time"] = "07:30:00"],
           [StopTimeRow EXCEPT !["trip_id"] = trip_id, !["stop_sequence"] = "1",
                               !["departure_time"] = template["departure_time"]]>>

\* what ingest_gtfs leaves of these tables: lines 167-177
SnapshotOf(calendar_rows, trips, stop_times) ==
    (<<FeedDir(SnapshotFeed), "raw", "trips">> :> trips)
        @@ (<<FeedDir(SnapshotFeed), "raw", "stop_times">> :> stop_times)
        @@ (<<FeedDir(SnapshotFeed), "derived", "dim_calendar">> :>
                DeriveDayTypes(calendar_rows, trips))

InitHeadways ==
    /\ calendar \in HeadwayCalendars
    /\ day_types = <<>>
    /\ phase = "input"
    /\ RegistryUnused
    /\ dirs = {FeedDir(SnapshotFeed)}
    /\ files = SnapshotOf(calendar, <<>>, <<>>)
    /\ runs = <<>>
    /\ value = <<>>

AddTrip ==
    /\ phase = "input"
    /\ Len(LoadTable(SnapshotFeed, "raw", "trips")) < MaxTrips
    /\ \E template \in TripTemplates :
           LET trips == LoadTable(SnapshotFeed, "raw", "trips")
               trip_id == TripIds[Len(trips) + 1]
           IN  files' = SnapshotOf(calendar, Append(trips, TripOf(trip_id, template)),
                                   LoadTable(SnapshotFeed, "raw", "stop_times")
                                       \o StopTimesOf(trip_id, template))
    /\ UNCHANGED <<dayTypeVars, registryVars, dirs, runs, value>>

TimebinChoices == {15, 60}

\* compute_headways(feed_dir, timebin_minutes=...)
ComputeHeadways ==
    /\ phase = "input"
    /\ \E timebin_minutes \in TimebinChoices :
           result' = [op |-> "compute_headways",
                      timebin_minutes |-> timebin_minutes,
                      outcome |-> AnalyticsOutcome(SnapshotFeed),
                      records |-> IF AnalyticsOutcome(SnapshotFeed) = "returned"
                                  THEN compute_headways(SnapshotFeed, timebin_minutes)
                                  ELSE <<>>]
    /\ phase' = "computed"
    /\ UNCHANGED <<calendar, day_types, registry, clock, lastUpsert, previous, storeVars,
                   runs, value>>

\* compute_service_kpis(feed_dir)
ComputeServiceKpis ==
    /\ phase = "input"
    /\ result' = [op |-> "compute_service_kpis",
                  outcome |-> AnalyticsOutcome(SnapshotFeed),
                  records |-> IF AnalyticsOutcome(SnapshotFeed) = "returned"
                              THEN compute_service_kpis(SnapshotFeed)
                              ELSE <<>>]
    /\ phase' = "computed"
    /\ UNCHANGED <<calendar, day_types, registry, clock, lastUpsert, previous, storeVars,
                   runs, value>>

NextHeadways == AddTrip \/ ComputeHeadways \/ ComputeServiceKpis

SpecHeadways == InitHeadways /\ [][NextHeadways]_vars

SnapshotTrips == LoadTable(SnapshotFeed, "raw", "trips")

SnapshotStopTimes == LoadTable(SnapshotFeed, "raw", "stop_times")

\* the trip (by position) has a stop_times row
HasDeparture(i) == SnapshotTrips[i]["trip_id"] \in TripsWithStopTimes(SnapshotStopTimes)

HeadwaysReturned ==
    phase = "computed" /\ result["op"] = "compute_headways" /\ result["outcome"] = "returned"

KpisReturned ==
    phase = "computed" /\ result["op"] = "compute_service_kpis"
        /\ result["outcome"] = "returned"

\* the services a day type of dim_calendar lists
ServicesOfDayType(day_type_id) ==
    LET dim_calendar == LoadTable(SnapshotFeed, "derived", "dim_calendar")
    IN  UNION {Range(dim_calendar[d]["service_ids"]) :
                  d \in {e \in 1..Len(dim_calendar) :
                            dim_calendar[e]["day_type_id"] = day_type_id}}

\* the trips (by position) of a day type, route and direction that have a stop time
LineTrips(day_type_id, route_id, direction) ==
    {i \in 1..Len(SnapshotTrips) :
        /\ SnapshotTrips[i]["service_id"] \in ServicesOfDayType(day_type_id)
        /\ HasDeparture(i)
        /\ SnapshotTrips[i]["route_id"] = route_id
        /\ _normalise_direction(SnapshotTrips[i]["direction_id"]) = direction}

\* its departure: that of its first stop in sequence
DepartureOfTrip(i) ==
    parse_gtfs_time(TextChars[FirstStopTime(SnapshotStopTimes, SnapshotTrips[i]["trip_id"])
                                  ["departure_time"]])["seconds"]

\* those of them whose first departure falls into the record's bucket
BucketTrips(record, bin_seconds) ==
    {i \in LineTrips(record["day_type_id"], record["route_id"], record["direction_id"]) :
        (DepartureOfTrip(i) \div bin_seconds) * bin_seconds = record["timebin_start"]}

\* C14: in every record compute_headways returns, departures is the number of
\* trips grouped into its (day-type, route, direction, bucket), and
\* headway_p50_min and headway_p90_min are both null iff departures < 2.
C14_DeparturesCountedAndPercentilesNullBelowTwo ==
    HeadwaysReturned =>
        \A i \in 1..Len(result["records"]) :
            LET record == result["records"][i]
            IN  /\ record["departures"]
                       = Cardinality(BucketTrips(record, result["timebin_minutes"] * 60))
                /\ record["headway_p50_min"] = <<>> <=> record["departures"] < 2
                /\ record["headway_p90_min"] = <<>> <=> record["departures"] < 2

\* one bucket of two departures with both percentiles, one of a single departure without
C14_Witness ==
    /\ HeadwaysReturned
    /\ \E i, j \in 1..Len(result["records"]) :
           /\ result["records"][i]["departures"] = 2
           /\ result["records"][i]["headway_p50_min"] # <<>>
           /\ result["records"][i]["headway_p90_min"] # <<>>
           /\ result["records"][j]["departures"] = 1
           /\ result["records"][j]["headway_p50_min"] = <<>>

\* the successive differences of the sorted departures of a record's trips, in
\* 1/600 of a minute like the percentiles
BucketDiffs(record, bin_seconds) ==
    LET trips == BucketTrips(record, bin_seconds)
        Gap(i, j) == DepartureOfTrip(j) - DepartureOfTrip(i)
        Before(i, j) == DepartureOfTrip(i) < DepartureOfTrip(j)
                            \/ (DepartureOfTrip(i) = DepartureOfTrip(j) /\ i < j)
        Adjacent(i, j) == Before(i, j) /\ ~\E k \in trips : Before(i, k) /\ Before(k, j)
    IN  {Gap(pair[1], pair[2]) * 10 : pair \in {q \in trips \X trips : Adjacent(q[1], q[2])}}

\* C15: in every record with at least 2 departures, headway_p50_min and
\* headway_p90_min lie between the least and the greatest successive difference
\* of the bucket's sorted departure times, and p50 <= p90.
C15_PercentilesWithinDiffs ==
    HeadwaysReturned =>
        \A i \in 1..Len(result["records"]) :
            LET record == result["records"][i]
                diffs == BucketDiffs(record, result["timebin_minutes"] * 60)
            IN  record["departures"] >= 2 =>
                    /\ record["headway_p50_min"] # <<>>
                    /\ record["headway_p90_min"] # <<>>
                    /\ \A d \in {record["headway_p50_min"][1], record["headway_p90_min"][1]} :
                           SetMin(diffs) <= d /\ d <= SetMax(diffs)
                    /\ record["headway_p50_min"][1] <= record["headway_p90_min"][1]

\* departures 06:00, 06:07, 06:12 in one bucket: gaps of 7 and 5 minutes,
\* p50 = 6 min and p90 = 6.8 min
C15_Witness ==
    /\ HeadwaysReturned
    /\ \E i \in 1..Len(result["records"]) :
           /\ result["records"][i]["departures"] = 3
           /\ result["records"][i]["headway_p50_min"] = <<3600>>
           /\ result["records"][i]["headway_p90_min"] = <<4080>>

\* scenario A: the weekday / saturday / sunday calendar, one route, and two
\* weekday trips whose first departures are 06:00 and 07:00; 15-minute buckets
ScenarioA ==
    /\ calendar # <<>>
    /\ \A i \in 1..Len(SnapshotTrips) : SnapshotTrips[i]["route_id"] = "R1"
    /\ LET weekday == {i \in 1..Len(SnapshotTrips) :
                          /\ SnapshotTrips[i]["service_id"] \in ServicesOfDayType("WEEKDAY")
                          /\ HasDeparture(i)}
       IN  /\ Cardinality(weekday) = 2
           /\ {DepartureOfTrip(i) : i \in weekday} = {21600, 25200}

WeekdayRecords ==
    {i \in 1..Len(result["records"]) : result["records"][i]["day_type_id"] = "WEEKDAY"}

\* C16 as stated: in scenario A compute_headways yields a WEEKDAY bucket that
\* holds both weekday trips, with departures = 2 and null headway percentiles.
C16_ScenarioAOneBucketOfTwo ==
    (HeadwaysReturned /\ result["timebin_minutes"] = 15 /\ ScenarioA)
    => \E i \in WeekdayRecords :
           /\ result["records"][i]["departures"] = 2
           /\ result["records"][i]["headway_p50_min"] = <<>>
           /\ result["records"][i]["headway_p90_min"] = <<>>

\* C16 amended: in scenario A compute_headways yields exactly two WEEKDAY
\* records, the 06:00 bucket and the 07:00 bucket, each with departures = 1 and
\* null headway percentiles (2 departures over the two buckets together).
C16_ScenarioATwoBucketsOfOne ==
    (HeadwaysReturned /\ result["timebin_minutes"] = 15 /\ ScenarioA)
    => /\ Cardinality(WeekdayRecords) = 2
       /\ {result["records"][i]["timebin_start"] : i \in WeekdayRecords} = {21600, 25200}
       /\ {result["records"][i]["timebin_label"] : i \in WeekdayRecords}
              = {<<"0", "6", ":", "0", "0">>, <<"0", "7", ":", "0", "0">>}
       /\ \A i \in WeekdayRecords :
              /\ result["records"][i]["departures"] = 1
              /\ result["records"][i]["headway_p50_min"] = <<>>
              /\ result["records"][i]["headway_p90_min"] = <<>>

\* scenario A with its saturday trip, both weekday trips in direction 0
C16_Witness ==
    /\ HeadwaysReturned
    /\ result["timebin_minutes"] = 15
    /\ ScenarioA
    /\ \A i \in 1..Len(SnapshotTrips) : SnapshotTrips[i]["direction_id"] = "0"
    /\ \E i \in 1..Len(result["records"]) : result["records"][i]["day_type_id"] = "SATURDAY"
    /\ Cardinality(WeekdayRecords) = 2

\* the (day-type, route, direction) triples with at least one trip that has a
\* departure
ServedLines ==
    LET dim_calendar == LoadTable(SnapshotFeed, "derived", "dim_calendar")
        days == {dim_calendar[d]["day_type_id"] : d \in 1..Len(dim_calendar)}
        routes == {SnapshotTrips[i]["route_id"] : i \in 1..Len(SnapshotTrips)}
    IN  {line \in days \X routes \X {<<>>, <<0>>, <<1>>} :
            LineTrips(line[1], line[2], line[3]) # {}}

\* the (day-type, trip) pairs where the trip's service belongs to the day type
\* and the trip has a stop time
DayTripPairs ==
    LET dim_calendar == LoadTable(SnapshotFeed, "derived", "dim_calendar")
        days == {dim_calendar[d]["day_type_id"] : d \in 1..Len(dim_calendar)}
    IN  {pair \in days \X (1..Len(SnapshotTrips)) :
            /\ SnapshotTrips[pair[2]]["service_id"] \in ServicesOfDayType(pair[1])
            /\ HasDeparture(pair[2])}

RECURSIVE SumDepartures(_)
SumDepartures(records) ==
    IF records = <<>> THEN 0
    ELSE Head(records)["departures"] + SumDepartures(Tail(records))

\* the minutes an "HH:MM" label stands for
LabelMinutes(label) ==
    IntOf(SplitOnColon(label)[1]) * 60 + IntOf(SplitOnColon(label)[2])

\* C17: compute_service_kpis returns exactly one record per (day-type, route,
\* direction) that has a trip with a departure; first_departure is the formatted
\* minimum and last_departure the formatted maximum of those trips' departures
\* (first <= last), departures is their count, and the departures of all records
\* add up to the number of (day-type, trip) pairs.
C17_KpisPerLine ==
    KpisReturned =>
        /\ {<<result["records"][i]["day_type_id"], result["records"][i]["route_id"],
              result["records"][i]["direction_id"]>> : i \in 1..Len(result["records"])}
               = ServedLines
        /\ Len(result["records"]) = Cardinality(ServedLines)
        /\ \A i \in 1..Len(result["records"]) :
               LET record == result["records"][i]
                   trips == LineTrips(record["day_type_id"], record["route_id"],
                                      record["direction_id"])
                   times == {DepartureOfTrip(t) : t \in trips}
               IN  /\ record["first_departure"] = format_seconds_as_time(SetMin(times))
                   /\ record["last_departure"] = format_seconds_as_time(SetMax(times))
                   /\ LabelMinutes(record["first_departure"])
                          <= LabelMinutes(record["last_departure"])
                   /\ record["departures"] = Cardinality(trips)
        /\ SumDepartures(result["records"]) = Cardinality(DayTripPairs)

\* scenario A, the later trip listed first: WEEKDAY gives "06:00", "07:00", 2
C17_Witness ==
    /\ KpisReturned
    /\ ScenarioA
    /\ DepartureOfTrip(1) = 25200
    /\ \E i \in 1..Len(result["records"]) :
           /\ result["records"][i]["day_type_id"] = "WEEKDAY"
           /\ result["records"][i]["first_departure"] = <<"0", "6", ":", "0", "0">>
           /\ result["records"][i]["last_departure"] = <<"0", "7", ":", "0", "0">>
           /\ result["records"][i]["departures"] = 2

\* the rank the claim gives a direction: 0, then 1, then missing
ClaimedDirectionRank(direction) == IF direction = <<>> THEN 2 ELSE direction[1]

ClaimedKey(row) ==
    <<TextRank(row["day_type_id"]), TextRank(row["route_id"]),
      ClaimedDirectionRank(row["direction_id"]),
      IF "timebin_start" \in DOMAIN row THEN row["timebin_start"] ELSE 0>>

\* C18: the lists compute_headways and compute_service_kpis return are sorted by
\* (day-type, route, direction, bucket start), direction 0 before direction 1
\* and a missing direction after both.
C18_SortedMissingDirectionLast ==
    (HeadwaysReturned \/ KpisReturned) =>
        \A i, j \in 1..Len(result["records"]) :
            i < j => ~KeyLess(ClaimedKey(result["records"][j]), ClaimedKey(result["records"][i]))

\* ---------------------------------------------------------------------------
\* Accessibility proxy: services/accessibility.py
\* Ring coordinates are in hundredths of a degree, centroids and stop
\* coordinates in ten-thousandths, distances in metres, travel times in
\* thousandths of a minute.
\* ---------------------------------------------------------------------------

accessibility_thresholds == <<15, 30, 45>>

\* Settings.timebin_minutes
settings_timebin_minutes == 15

default_boarding_penalty_min == 5

default_service_speed_kmh == 25

RECURSIVE SumOf(_)
SumOf(seq) == IF seq = <<>> THEN 0 ELSE Head(seq) + SumOf(Tail(seq))

\* a / b for integers of either sign, towards minus infinity
Quotient(a, b) == IF b < 0 THEN (0 - a) \div (0 - b) ELSE a \div b

\* lines 54-73: the area-weighted centroid, or the mean of the vertices of a
\* ring without area; 6 * area is three times the sum of the cross products
_polygon_centroid(pts) ==
    IF pts = <<>> THEN <<0, 0>>
    ELSE LET n == Len(pts)
             After(i) == pts[(i % n) + 1]
             Cross(i) == pts[i][1] * After(i)[2] - After(i)[1] * pts[i][2]
             twice_area == SumOf([i \in 1..n |-> Cross(i)])
             cx == SumOf([i \in 1..n |-> (pts[i][1] + After(i)[1]) * Cross(i)])
             cy == SumOf([i \in 1..n |-> (pts[i][2] + After(i)[2]) * Cross(i)])
         IN  IF twice_area = 0
             THEN <<(100 * SumOf([i \in 1..n |-> pts[i][1]])) \div n,
                    (100 * SumOf([i \in 1..n |-> pts[i][2]])) \div n>>
             ELSE <<Quotient(100 * cx, 3 * twice_area), Quotient(100 * cy, 3 * twice_area)>>

\* lines 38-44: the outer ring of a Polygon, of the first polygon of a MultiPolygon
HasRing(feature) ==
    feature["type"] \in {"Polygon", "MultiPolygon"} /\ feature["coordinates"] # <<>>

RingOf(feature) ==
    IF feature["type"] = "Polygon" THEN feature["coordinates"][1]
    ELSE feature["coordinates"][1][1]

\* lines 46-47: a closing vertex equal to the first is dropped
OpenRing(ring) ==
    IF ring # <<>> /\ ring[1] = ring[Len(ring)] THEN SubSeq(ring, 1, Len(ring) - 1)
    ELSE ring

\* lines 27-51; zone_id <<>> is a feature without that property
_load_zones(features) ==
    LET Kept(feature) == feature["zone_id"] # <<>> /\ HasRing(feature)
        kept == SelectSeq(features, Kept)
    IN  [i \in 1..Len(kept) |->
            [zone_id |-> kept[i]["zone_id"][1],
             lon |-> _polygon_centroid(OpenRing(RingOf(kept[i])))[1],
             lat |-> _polygon_centroid(OpenRing(RingOf(kept[i])))[2]]]

\* lines 14-20 evaluated on the centroids and stops of the model, to the metre
HaversineMetres ==
    (<<23550, 488600, 23522, 488566>> :> 430) @@ (<<23550, 488600, 23600, 488580>> :> 428)
        @@ (<<24100, 488600, 23522, 488566>> :> 4245)
        @@ (<<24100, 488600, 23600, 488580>> :> 3665)
        @@ (<<28100, 488600, 23522, 488566>> :> 33494)
        @@ (<<28100, 488600, 23600, 488580>> :> 32921)

_haversine_distance_m(lon1, lat1, lon2, lat2) == HaversineMetres[<<lon1, lat1, lon2, lat2>>]

\* lines 138-140
_estimate_travel_minutes(distance_m, speed_kmh, penalty_min) ==
    (distance_m * 60) \div speed_kmh + penalty_min * 1000

\* the ascending list of a set of identifiers: sorted(stop_ids)
RECURSIVE SortedIds(_)
SortedIds(S) ==
    IF S = {} THEN <<>>
    ELSE LET least == CHOOSE s \in S : \A t \in S : TextRank(s) <= TextRank(t)
         IN  <<least>> \o SortedIds(S \ {least})

\* the stops of every stop_times row, whatever the service of its trip
_load_stop_ids_of_any_service(feed_hash, service_ids) ==
    LET stop_times == LoadTable(feed_hash, "raw", "stop_times")
    IN  SortedIds({stop_times[i]["stop_id"] : i \in 1..Len(stop_times)})

\* lines 76-81
_load_active_stop_ids(feed_hash, service_ids) ==
    LET stop_times == LoadTable(feed_hash, "raw", "stop_times")
        trips == LoadTable(feed_hash, "raw", "trips")
        active_trip_ids ==
            {trips[i]["trip_id"] : i \in {j \in 1..Len(trips) :
                                             trips[j]["service_id"] \in Range(service_ids)}}
    IN  SortedIds({stop_times[i]["stop_id"] :
                      i \in {j \in 1..Len(stop_times) :
                                stop_times[j]["trip_id"] \in active_trip_ids}})

\* lines 84-98: the last dim_stop row of each requested stop id
_load_stops(feed_hash, stop_ids) ==
    LET stops == LoadTable(feed_hash, "derived", "dim_stop")
        Known(stop_id) == \E i \in 1..Len(stops) : stops[i]["stop_id"] = stop_id
        RowOf(stop_id) ==
            stops[CHOOSE i \in 1..Len(stops) :
                      /\ stops[i]["stop_id"] = stop_id
                      /\ \A j \in (i + 1)..Len(stops) : stops[j]["stop_id"] # stop_id]
        known == SelectSeq(stop_ids, Known)
    IN  [i \in 1..Len(known) |->
            [stop_id |-> known[i], lon |-> RowOf(known[i])["lon"],
             lat |-> RowOf(known[i])["lat"]]]

\* a socio path and the file behind it: given is FALSE for no path, payload is
\* what the text of the file is (a JSON list of items, a JSON object with a
\* "features" list, a JSON object without one, a JSON scalar, CSV rows under a
\* header, or text that is none of these), items the items, features or rows
SocioFile(given, exists, suffix, payload, items) ==
    [given |-> given, exists |-> exists, suffix |-> suffix, payload |-> payload,
     items |-> items]

NoSocioPath == SocioFile(FALSE, FALSE, "", "text", <<>>)

JsonList(items) == SocioFile(TRUE, TRUE, ".json", "list", items)

\* path.suffix.lower(), line 106
SuffixLower(suffix) == IF suffix = ".JSON" THEN ".json" ELSE suffix

\* the payloads json.loads accepts
JsonPayloads == {"list", "features", "object", "scalar"}

\* a property is <<>> (missing or null), <<n>> (a number) or <<"str", text>>;
\* int(text) raises ValueError on text that is not an integer literal
CanCount(property) ==
    Len(property) < 2 \/ property[2] = "" \/ property[2] \in DOMAIN IntText

\* int(properties.get(key, 0) or 0)
SocioCount(property) ==
    IF property = <<>> THEN 0
    ELSE IF Len(property) = 1 THEN property[1]
    ELSE IF property[2] = "" THEN 0
    ELSE IntText[property[2]]

\* the items the loops of lines 112 and 126 visit
SocioRecords(file) ==
    IF ~file["given"] \/ ~file["exists"] THEN <<>>
    ELSE IF SuffixLower(file["suffix"]) \in {".json", ".geojson"}
    THEN IF file["payload"] \in {"list", "features"} THEN file["items"] ELSE <<>>
    ELSE IF SuffixLower(file["suffix"]) = ".csv"
    THEN IF file["payload"] = "rows" THEN file["items"] ELSE <<>>
    ELSE <<>>

\* what _load_socio does: returns a mapping, or raises from json.loads or int()
SocioOutcome(file) ==
    IF ~file["given"] \/ ~file["exists"] THEN "returned"
    ELSE IF /\ SuffixLower(file["suffix"]) \in {".json", ".geojson"}
            /\ file["payload"] \notin JsonPayloads
    THEN "JSONDecodeError"
    ELSE IF \E i \in 1..Len(SocioRecords(file)) :
                /\ SocioRecords(file)[i]["zone_id"] # <<>>
                /\ \E key \in {"population", "jobs", "schools"} :
                       ~CanCount(SocioRecords(file)[i][key])
    THEN "ValueError"
    ELSE "returned"

\* lines 101-135, when it returns: a later item of a zone replaces an earlier one
_load_socio(socio) ==
    IF SocioRecords(socio) = <<>> THEN <<>>
    ELSE LET items == SocioRecords(socio)
             Keyed(item) == item["zone_id"] # <<>>
             keyed == SelectSeq(items, Keyed)
             LastOf(zone_id) ==
                 keyed[CHOOSE i \in 1..Len(keyed) :
                           /\ keyed[i]["zone_id"][1] = zone_id
                           /\ \A j \in (i + 1)..Len(keyed) : keyed[j]["zone_id"][1] # zone_id]
         IN  [zone_id \in {keyed[i]["zone_id"][1] : i \in 1..Len(keyed)} |->
                 [population |-> SocioCount(LastOf(zone_id)["population"]),
                  jobs |-> SocioCount(LastOf(zone_id)["jobs"]),
                  schools |-> SocioCount(LastOf(zone_id)["schools"])]]

\* line 176: socio.get(zone_id, zeros)
MetricsOf(socio, zone_id) ==
    IF zone_id \in DOMAIN _load_socio(socio) THEN _load_socio(socio)[zone_id]
    ELSE [population |-> 0, jobs |-> 0, schools |-> 0]

\* a stop counts when it is at least the threshold away
BeyondThreshold(minutes, threshold) == minutes >= threshold * 1000

\* line 182
WithinThreshold(minutes, threshold) == minutes <= threshold * 1000

\* the count whatever the number of reachable stops
AttributedAlways(count, reachable) == count

\* lines 191-193: count if reachable else 0
Attributed(count, reachable) == IF reachable # 0 THEN count ELSE 0

\* lines 154-155: value or default; <<>> is None, and 0 is false too
NumberOrDefault(given, default) ==
    IF given = <<>> \/ given = <<0>> THEN default ELSE given[1]

\* line 153: thresholds or default; <<>> is None or the empty list
ThresholdsOrDefault(thresholds) ==
    IF thresholds = <<>> THEN accessibility_thresholds ELSE thresholds

\* lines 168-195 for one day type
AccessibilityOfDay(day, feed_hash, zones, socio, thresholds, speed_kmh, penalty_min) ==
    LET stop_ids == _load_active_stop_ids(feed_hash, day["service_ids"])
        stops == _load_stops(feed_hash, stop_ids)
        Minutes(zone, stop) ==
            _estimate_travel_minutes(
                _haversine_distance_m(zone["lon"], zone["lat"], stop["lon"], stop["lat"]),
                speed_kmh, penalty_min)
        Reachable(zone, threshold) ==
            Cardinality({i \in 1..Len(stops) :
                            WithinThreshold(Minutes(zone, stops[i]), threshold)})
        RecordOf(zone, threshold) ==
            [feed_id |-> feed_hash,
             zone_id |-> zone["zone_id"],
             day_type_id |-> day["day_type_id"],
             threshold_min |-> threshold,
             stops_reachable |-> Reachable(zone, threshold),
             pop_reachable |->
                 Attributed(MetricsOf(socio, zone["zone_id"])["population"],
                            Reachable(zone, threshold)),
             jobs_reachable |->
                 Attributed(MetricsOf(socio, zone["zone_id"])["jobs"],
                            Reachable(zone, threshold)),
             schools_reachable |->
                 Attributed(MetricsOf(socio, zone["zone_id"])["schools"],
                            Reachable(zone, threshold))]
    IN  IF stop_ids = <<>> \/ stops = <<>> THEN <<>>
        ELSE Flatten([z \in 1..Len(zones) |->
                         [t \in 1..Len(thresholds) |-> RecordOf(zones[z], thresholds[t])]])

AccessibilityKey(row) ==
    <<TextRank(row["zone_id"]), TextRank(row["day_type_id"]), row["threshold_min"]>>

\* lines 143-204
compute_accessibility(feed_hash, zones_file, socio, thresholds, speed_kmh, penalty_min) ==
    LET days == DaysWithServices(feed_hash)
        rows == Flatten([i \in 1..Len(days) |->
                            AccessibilityOfDay(days[i], feed_hash, _load_zones(zones_file),
                                               socio,
                                               ThresholdsOrDefault(thresholds),
                                               NumberOrDefault(speed_kmh,
                                                               default_service_speed_kmh),
                                               NumberOrDefault(penalty_min,
                                                               default_boarding_penalty_min))])
    IN  SortByKey([i \in 1..Len(rows) |-> <<AccessibilityKey(rows[i]), rows[i]>>])

\* ---------------------------------------------------------------------------
\* SpecAccessibility: a snapshot whose trips visit the stops of the feed, and
\* calls of compute_accessibility on it
\* ---------------------------------------------------------------------------

MaxVisits == 2

SecondStopRow ==
    [stop_id |-> "P2", stop_name |-> "Stop 2", stop_lat |-> "48.858", stop_lon |-> "2.36"]

\* the snapshot with the dim_stop table ingest_gtfs derives: lines 179-189
AccessSnapshotOf(calendar_rows, trips, stop_times) ==
    SnapshotOf(calendar_rows, trips, stop_times)
        @@ (<<FeedDir(SnapshotFeed), "derived", "dim_stop">> :>
                StopsEnriched(<<StopRow("48.8566"), SecondStopRow>>, SnapshotFeed))

\* a trip of a service calling at one stop; P9 is not in stops.txt
VisitTemplates == [service_id : {"S1", "S2"}, stop_id : {"P1", "P2", "P9"}]

\* a closed rectangular ring, counter-clockwise
RingAround(west, south, east, north) ==
    <<<<west, south>>, <<east, south>>, <<east, north>>, <<west, north>>, <<west, south>>>>

ZoneFeature(zone_id, type, coordinates) ==
    [zone_id |-> zone_id, type |-> type, coordinates |-> coordinates]

\* the zone of the tests, one 4 km east of the stops, one 33 km east
NearZone == ZoneFeature(<<"Z1">>, "Polygon", <<RingAround(234, 4885, 237, 4887)>>)

MidZone == ZoneFeature(<<"Z2">>, "Polygon", <<RingAround(240, 4885, 242, 4887)>>)

FarZone == ZoneFeature(<<"Z3">>, "Polygon", <<RingAround(280, 4885, 282, 4887)>>)

\* the features of a zones file
ZoneFiles ==
    {<<>>,
     <<NearZone>>,
     <<MidZone, FarZone, NearZone>>,
     <<ZoneFeature(<<>>, "Polygon", <<RingAround(234, 4885, 237, 4887)>>),
       ZoneFeature(<<"Z2">>, "MultiPolygon", <<<<RingAround(240, 4885, 242, 4887)>>>>),
       ZoneFeature(<<"Z3">>, "Point", <<281, 4886>>),
       ZoneFeature(<<"Z1">>, "Polygon", <<>>)>>}

SocioItem(zone_id, population, jobs, schools) ==
    [zone_id |-> zone_id, population |-> population, jobs |-> jobs, schools |-> schools]

\* no socio path, a file for the zone of the tests, a file with a repeated zone,
\* a file that is not JSON
SocioFiles ==
    {NoSocioPath,
     JsonList(<<SocioItem(<<"Z1">>, <<1000>>, <<200>>, <<3>>)>>),
     JsonList(<<SocioItem(<<"Z2">>, <<500>>, <<>>, <<0>>),
                SocioItem(<<>>, <<70>>, <<70>>, <<70>>),
                SocioItem(<<"Z2">>, <<800>>, <<40>>, <<>>)>>),
     SocioFile(TRUE, TRUE, ".json", "text", <<>>)}

ThresholdChoices == {<<>>, <<30>>, <<45, 15>>}

SpeedChoices == {<<>>, <<50>>}

PenaltyChoices == {<<>>, <<0>>, <<10>>}

InitAccessibility ==
    /\ calendar \in HeadwayCalendars
    /\ day_types = <<>>
    /\ phase = "input"
    /\ RegistryUnused
    /\ dirs = {FeedDir(SnapshotFeed)}
    /\ files = AccessSnapshotOf(calendar, <<>>, <<>>)
    /\ runs = <<>>
    /\ value = <<>>

AddVisit ==
    /\ phase = "input"
    /\ Len(LoadTable(SnapshotFeed, "raw", "trips")) < MaxVisits
    /\ \E template \in VisitTemplates :
           LET trips == LoadTable(SnapshotFeed, "raw", "trips")
               trip_id == TripIds[Len(trips) + 1]
           IN  files' = AccessSnapshotOf(
                            calendar,
                            Append(trips, [TripRow(template["service_id"])
                                               EXCEPT !["trip_id"] = trip_id]),
                            Append(LoadTable(SnapshotFeed, "raw", "stop_times"),
                                   [StopTimeRow EXCEPT !["trip_id"] = trip_id,
                                                       !["stop_id"] = template["stop_id"]]))
    /\ UNCHANGED <<dayTypeVars, registryVars, dirs, runs, value>>

\* compute_accessibility(feed_dir, zones_path, socio_path=..., thresholds=..., ...)
ComputeAccessibility ==
    /\ phase = "input"
    /\ \E zones_file \in ZoneFiles, socio \in SocioFiles, thresholds \in ThresholdChoices,
          speed_kmh \in SpeedChoices, penalty_min \in PenaltyChoices :
           result' = [op |-> "compute_accessibility",
                      zones |-> zones_file,
                      socio |-> socio,
                      thresholds |-> thresholds,
                      speed_kmh |-> speed_kmh,
                      penalty_min |-> penalty_min,
                      outcome |-> SocioOutcome(socio),
                      records |-> IF SocioOutcome(socio) = "returned"
                                  THEN compute_accessibility(SnapshotFeed, zones_file, socio,
                                                             thresholds, speed_kmh,
                                                             penalty_min)
                                  ELSE <<>>]
    /\ phase' = "computed"
    /\ UNCHANGED <<calendar, day_types, registry, clock, lastUpsert, previous, storeVars,
                   runs, value>>

NextAccessibility == AddVisit \/ ComputeAccessibility

SpecAccessibility == InitAccessibility /\ [][NextAccessibility]_vars

AccessibilityReturned ==
    phase = "computed" /\ result["op"] = "compute_accessibility"
        /\ result["outcome"] = "returned"

ReachableFields == {"stops_reachable", "pop_reachable", "jobs_reachable", "schools_reachable"}

SocioItemsOf(zone_id) ==
    IF ~result["socio"]["given"] THEN <<>>
    ELSE LET Mine(item) == item["zone_id"] = <<zone_id>>
         IN  SelectSeq(result["socio"]["items"], Mine)

ClaimedCount(zone_id, key) ==
    LET items == SocioItemsOf(zone_id)
    IN  IF items = <<>> \/ items[Len(items)][key] = <<>> THEN 0
        ELSE items[Len(items)][key][1]

\* the zone ids of the features with an id and a polygon
ZoneIdsGiven ==
    {result["zones"][i]["zone_id"][1] :
         i \in {k \in 1..Len(result["zones"]) :
                   /\ result["zones"][k]["zone_id"] # <<>>
                   /\ result["zones"][k]["type"] \in {"Polygon", "MultiPolygon"}
                   /\ result["zones"][k]["coordinates"] # <<>>}}

\* C20: every coverage record carries the zone's full population, jobs and
\* schools counts when stops_reachable > 0 and 0 for all three when
\* stops_reachable = 0; a zone without a socio entry, or a call without socio
\* data, gets 0 for all three, and still has its record for every zone, day type
\* and threshold of the call.
C20_SocioAttributedInFullOrNotAtAll ==
    AccessibilityReturned =>
        /\ \A i \in 1..Len(result["records"]) :
               LET row == result["records"][i]
               IN  /\ row["stops_reachable"] > 0 =>
                          /\ row["pop_reachable"] = ClaimedCount(row["zone_id"], "population")
                          /\ row["jobs_reachable"] = ClaimedCount(row["zone_id"], "jobs")
                          /\ row["schools_reachable"] = ClaimedCount(row["zone_id"], "schools")
                   /\ (row["stops_reachable"] = 0 \/ SocioItemsOf(row["zone_id"]) = <<>>) =>
                          /\ row["pop_reachable"] = 0
                          /\ row["jobs_reachable"] = 0
                          /\ row["schools_reachable"] = 0
        /\ \A i \in 1..Len(result["records"]) :
               \A zone_id \in ZoneIdsGiven :
                   \E j \in 1..Len(result["records"]) :
                       /\ result["records"][j]["zone_id"] = zone_id
                       /\ result["records"][j]["day_type_id"]
                              = result["records"][i]["day_type_id"]
                       /\ result["records"][j]["threshold_min"]
                              = result["records"][i]["threshold_min"]

\* one call whose records show a zone with its full counts, the same zone with none
\* of them at a smaller threshold, and a zone without socio entry that has
\* reachable stops
C20_Witness ==
    /\ AccessibilityReturned
    /\ \E i, j, k \in 1..Len(result["records"]) :
           LET a == result["records"][i]
               b == result["records"][j]
               c == result["records"][k]
           IN  /\ a["stops_reachable"] > 0 /\ a["pop_reachable"] = 800
               /\ a["jobs_reachable"] = 40 /\ a["schools_reachable"] = 0
               /\ b["zone_id"] = a["zone_id"] /\ b["stops_reachable"] = 0
               /\ b["pop_reachable"] = 0
               /\ SocioItemsOf(c["zone_id"]) = <<>> /\ c["stops_reachable"] > 0
               /\ c["pop_reachable"] = 0

\* the position, among the zones read from the call's zones file, of a record's zone
ZoneOfRecord(zones, row) ==
    CHOOSE z \in 1..Len(zones) : zones[z]["zone_id"] = row["zone_id"]

\* the rows of dim_stop served by a trip of one of the day type's services
StopsServedOn(day_type_id) ==
    LET stop_times == LoadTable(SnapshotFeed, "raw", "stop_times")
        dim_stop == LoadTable(SnapshotFeed, "derived", "dim_stop")
    IN  {s \in 1..Len(dim_stop) :
            \E t \in 1..Len(SnapshotTrips), r \in 1..Len(stop_times) :
                /\ SnapshotTrips[t]["service_id"] \in ServicesOfDayType(day_type_id)
                /\ stop_times[r]["trip_id"] = SnapshotTrips[t]["trip_id"]
                /\ stop_times[r]["stop_id"] = dim_stop[s]["stop_id"]}

\* the estimated minutes (in thousandths) from a zone centroid to a stop
MinutesFromZone(zone, stop) ==
    _estimate_travel_minutes(
        _haversine_distance_m(zone["lon"], zone["lat"], stop["lon"], stop["lat"]),
        NumberOrDefault(result["speed_kmh"], default_service_speed_kmh),
        NumberOrDefault(result["penalty_min"], default_boarding_penalty_min))

\* C21: in every coverage record, stops_reachable is the number of distinct
\* stops served by at least one trip of a service of the record's day type whose
\* estimated travel time from the zone centroid is at most the threshold; stops
\* served only by trips of other day types are not counted.
C21_ReachableCountsActiveStopsOfDayType ==
    AccessibilityReturned =>
        \A zones \in {_load_zones(result["zones"])} :
            \A dim_stop \in {LoadTable(SnapshotFeed, "derived", "dim_stop")} :
                \A minutes \in {[z \in 1..Len(zones) |->
                                    [s \in 1..Len(dim_stop) |->
                                        MinutesFromZone(zones[z], dim_stop[s])]]} :
                    \A i \in 1..Len(result["records"]) :
                        LET row == result["records"][i]
                        IN  row["stops_reachable"]
                                = Cardinality({s \in StopsServedOn(row["day_type_id"]) :
                                                  minutes[ZoneOfRecord(zones, row)][s]
                                                      <= row["threshold_min"] * 1000})

\* two day types serving different stops near the same zone: each record counts
\* only the stop of its own day type
C21_Witness ==
    /\ AccessibilityReturned
    /\ StopsServedOn("WEEKDAY") # {} /\ StopsServedOn("SATURDAY") # {}
    /\ StopsServedOn("WEEKDAY") \cap StopsServedOn("SATURDAY") = {}
    /\ \E i, j \in 1..Len(result["records"]) :
           /\ result["records"][i]["day_type_id"] = "WEEKDAY"
           /\ result["records"][j]["day_type_id"] = "SATURDAY"
           /\ result["records"][i]["zone_id"] = result["records"][j]["zone_id"]
           /\ result["records"][i]["stops_reachable"] = 1
           /\ result["records"][j]["stops_reachable"] = 1

\* the value of an argument that was given, the default when it was omitted
GivenOrDefault(given, default) == IF given = <<>> THEN default ELSE given[1]

\* C30: compute_accessibility estimates travel times with the speed and the
\* boarding penalty the caller gave, 0 included, and with the configured
\* defaults only when they were omitted: stops_reachable of every record is the
\* number of active stops of its day type whose time so estimated is at most
\* the threshold.
C30_SuppliedParametersHonoured ==
    AccessibilityReturned =>
        \A zones \in {_load_zones(result["zones"])} :
            \A dim_stop \in {LoadTable(SnapshotFeed, "derived", "dim_stop")} :
                \A minutes \in {[z \in 1..Len(zones) |->
                                    [s \in 1..Len(dim_stop) |->
                                        _estimate_travel_minutes(
                                            _haversine_distance_m(
                                                zones[z]["lon"], zones[z]["lat"],
                                                dim_stop[s]["lon"], dim_stop[s]["lat"]),
                                            GivenOrDefault(result["speed_kmh"],
                                                           default_service_speed_kmh),
                                            GivenOrDefault(result["penalty_min"],
                                                           default_boarding_penalty_min))]]} :
                    \A i \in 1..Len(result["records"]) :
                        LET row == result["records"][i]
                        IN  row["stops_reachable"]
                                = Cardinality({s \in StopsServedOn(row["day_type_id"]) :
                                                  minutes[ZoneOfRecord(zones, row)][s]
                                                      <= row["threshold_min"] * 1000})

\* ---------------------------------------------------------------------------
\* SpecSocio: _load_socio on a socio path and the file behind it
\* ---------------------------------------------------------------------------

MaxSocioItems == 2

SocioSuffixes == {".json", ".JSON", ".geojson", ".csv", ".txt"}

SocioPayloads == {"list", "features", "object", "scalar", "rows", "text"}

\* no path, a path to no file, and every kind of text under every suffix
SocioStarts ==
    {NoSocioPath, SocioFile(TRUE, FALSE, ".json", "text", <<>>)}
        \cup {SocioFile(TRUE, TRUE, suffix, payload, <<>>) :
                  suffix \in SocioSuffixes, payload \in SocioPayloads}

\* an item, feature or row: with or without zone_id, its population missing, a
\* number or a text
SocioEntries ==
    {SocioItem(zone_id, population, <<40>>, <<>>) :
         zone_id \in {<<>>, <<"Z1">>, <<"Z2">>},
         population \in {<<>>, <<1000>>, <<"str", "">>, <<"str", "2">>, <<"str", "abc">>}}

InitSocio ==
    /\ calendar = <<>>
    /\ day_types = <<>>
    /\ phase = "input"
    /\ RegistryUnused
    /\ StoreEmpty
    /\ runs = <<>>
    /\ value \in SocioStarts

AddSocioEntry ==
    /\ phase = "input"
    /\ value["exists"]
    /\ value["payload"] \in {"list", "features", "rows"}
    /\ Len(value["items"]) < MaxSocioItems
    /\ \E entry \in SocioEntries :
           value' = [value EXCEPT !["items"] = Append(@, entry)]
    /\ UNCHANGED <<dayTypeVars, registryVars, storeVars, runs>>

\* _load_socio(path)
LoadSocio ==
    /\ phase = "input"
    /\ result' = [op |-> "_load_socio",
                  outcome |-> SocioOutcome(value),
                  metrics |-> IF SocioOutcome(value) = "returned" THEN _load_socio(value)
                              ELSE <<>>]
    /\ phase' = "loaded"
    /\ UNCHANGED <<calendar, day_types, registry, clock, lastUpsert, previous, storeVars,
                   runs, value>>

NextSocio == AddSocioEntry \/ LoadSocio

SpecSocio == InitSocio /\ [][NextSocio]_vars

\* the file is in none of the formats _load_socio reads, or its text is not what
\* its suffix announces
SocioMalformed(file) ==
    \/ SuffixLower(file["suffix"]) \notin {".json", ".geojson", ".csv"}
    \/ /\ SuffixLower(file["suffix"]) \in {".json", ".geojson"}
       /\ file["payload"] \notin {"list", "features"}
    \/ SuffixLower(file["suffix"]) = ".csv" /\ file["payload"] # "rows"

\* C22: _load_socio fails with an error, instead of returning an empty mapping,
\* for a file that exists and whose content is malformed or of an unreadable
\* format; only no path or an absent file is read as "no socio data".
C22_MalformedSocioFileFails ==
    (phase = "loaded" /\ value["given"] /\ value["exists"] /\ SocioMalformed(value))
        => result["outcome"] # "returned"

\* ---------------------------------------------------------------------------
\* SpecEngines: the three engines called, in any order, on a stored snapshot
\* that is listed in the registry
\* ---------------------------------------------------------------------------

MaxEngineCalls == 3

\* every table written back empty
StoreRewritten(store) == [path \in DOMAIN store |-> <<>>]

\* headways.py lines 15-19, accessibility.py lines 23-24: a table is read with
\* read_text(); no engine opens a file of the store for writing
StoreAfterLoading(store) == store

\* the registry after the ingest that stored the snapshot
SnapshotRegistry ==
    upsert_feed(DatasetRegistry(NoRegistryFile),
                RegistryMetadata(CompleteArchive(<<>>, <<StopRow("48.8566")>>, <<>>, <<>>),
                                 SnapshotFeed, "a.zip"), 1)

InitEngines ==
    /\ calendar \in HeadwayCalendars
    /\ day_types = <<>>
    /\ phase = "stored"
    /\ registry = SnapshotRegistry
    /\ clock = 1
    /\ lastUpsert = (SnapshotFeed :> SnapshotRegistry["feeds"][1])
    /\ result = [op |-> "none"]
    /\ dirs = {FeedDir(SnapshotFeed)}
    /\ files \in {AccessSnapshotOf(calendar, <<>>, <<>>)}
                     \cup {AccessSnapshotOf(calendar, <<TripOf("T1", template)>>,
                                            StopTimesOf("T1", template)) :
                               template \in TripTemplates}
    /\ previous = [result |-> [op |-> "none"], registry |-> registry, files |-> files]
    /\ runs = <<>>
    /\ value = <<>>

\* compute_headways(feed_dir, timebin_minutes=...)
CallHeadways ==
    /\ Len(value) < MaxEngineCalls
    /\ \E timebin_minutes \in TimebinChoices :
           result' = [op |-> "compute_headways",
                      timebin_minutes |-> timebin_minutes,
                      outcome |-> AnalyticsOutcome(SnapshotFeed),
                      records |-> IF AnalyticsOutcome(SnapshotFeed) = "returned"
                                  THEN compute_headways(SnapshotFeed, timebin_minutes)
                                  ELSE <<>>]
    /\ files' = StoreAfterLoading(files)
    /\ value' = Append(value, "compute_headways")
    /\ UNCHANGED <<dayTypeVars, registry, clock, lastUpsert, previous, dirs, runs>>

\* compute_service_kpis(feed_dir)
CallServiceKpis ==
    /\ Len(value) < MaxEngineCalls
    /\ result' = [op |-> "compute_service_kpis",
                  outcome |-> AnalyticsOutcome(SnapshotFeed),
                  records |-> IF AnalyticsOutcome(SnapshotFeed) = "returned"
                              THEN compute_service_kpis(SnapshotFeed)
                              ELSE <<>>]
    /\ files' = StoreAfterLoading(files)
    /\ value' = Append(value, "compute_service_kpis")
    /\ UNCHANGED <<dayTypeVars, registry, clock, lastUpsert, previous, dirs, runs>>

\* compute_accessibility(feed_dir, zones_path, thresholds=...)
CallAccessibility ==
    /\ Len(value) < MaxEngineCalls
    /\ \E thresholds \in {<<>>, <<30>>} :
           result' = [op |-> "compute_accessibility",
                      zones |-> <<NearZone>>,
                      socio |-> NoSocioPath,
                      thresholds |-> thresholds,
                      speed_kmh |-> <<>>,
                      penalty_min |-> <<>>,
                      outcome |-> SocioOutcome(NoSocioPath),
                      records |-> compute_accessibility(SnapshotFeed, <<NearZone>>,
                                                        NoSocioPath, thresholds, <<>>, <<>>)]
    /\ files' = StoreAfterLoading(files)
    /\ value' = Append(value, "compute_accessibility")
    /\ UNCHANGED <<dayTypeVars, registry, clock, lastUpsert, previous, dirs, runs>>

NextEngines == CallHeadways \/ CallServiceKpis \/ CallAccessibility

SpecEngines == InitEngines /\ [][NextEngines]_vars

\* C23: after any number of calls of compute_headways, compute_service_kpis and
\* compute_accessibility, in any order, every file of the feed's raw and derived
\* areas and the registry are what they were before the first call.
C23_EnginesLeaveStoreAndRegistryUnchanged ==
    /\ files = previous["files"]
    /\ registry = previous["registry"]
    /\ dirs = {FeedDir(SnapshotFeed)}

\* the three engines called one after the other on a snapshot with a trip, the
\* last call returning records
C23_Witness ==
    /\ Len(value) = 3
    /\ Range(value) = {"compute_headways", "compute_service_kpis", "compute_accessibility"}
    /\ LoadTable(SnapshotFeed, "raw", "trips") # <<>>
    /\ result["outcome"] = "returned" /\ result["records"] # <<>>
    /\ registry["feeds"] # <<>>

\* ---------------------------------------------------------------------------
\* SpecZones: _load_zones on a zones file of one polygon whose outer ring is
\* built vertex by vertex
\* ---------------------------------------------------------------------------

MaxVertices == 4

\* three points of one line and one off it, in hundredths of a degree
RingPoints == {<<234, 4885>>, <<235, 4886>>, <<236, 4887>>, <<236, 4885>>}

InitZones ==
    /\ calendar = <<>>
    /\ day_types = <<>>
    /\ phase = "input"
    /\ RegistryUnused
    /\ StoreEmpty
    /\ runs = <<>>
    /\ value = <<>>

AddVertex ==
    /\ phase = "input"
    /\ Len(value) < MaxVertices
    /\ \E point \in RingPoints : value' = Append(value, point)
    /\ UNCHANGED <<dayTypeVars, registryVars, storeVars, runs>>

\* _load_zones(zones_path) on the file holding the ring
LoadZones ==
    /\ phase = "input"
    /\ result' = [op |-> "_load_zones",
                  zones |-> _load_zones(<<ZoneFeature(<<"Z1">>, "Polygon", <<value>>)>>)]
    /\ phase' = "loaded"
    /\ UNCHANGED <<calendar, day_types, registry, clock, lastUpsert, previous, storeVars,
                   runs, value>>

NextZones == AddVertex \/ LoadZones

SpecZones == InitZones /\ [][NextZones]_vars

\* the vertices of a ring once a closing vertex that repeats the first is removed
RingVertices(ring) ==
    IF Len(ring) > 1 /\ ring[1] = ring[Len(ring)] THEN SubSeq(ring, 1, Len(ring) - 1)
    ELSE ring

\* every three vertices lie on one line: a point, repeated points, a segment
RingDegenerate(ring) ==
    \A i, j, k \in 1..Len(ring) :
        (ring[j][1] - ring[i][1]) * (ring[k][2] - ring[i][2])
            = (ring[k][1] - ring[i][1]) * (ring[j][2] - ring[i][2])

\* the mean of the vertices, in ten-thousandths of a degree
RingMean(ring) ==
    <<(100 * SumOf([i \in 1..Len(ring) |-> ring[i][1]])) \div Len(ring),
      (100 * SumOf([i \in 1..Len(ring) |-> ring[i][2]])) \div Len(ring)>>

\* C24: the centroid _load_zones gives a zone whose outer ring is degenerate (one
\* point, repeated identical points, collinear points) is the arithmetic mean of
\* the ring's vertices, the repeated closing vertex removed; a ring of the single
\* vertex p has centroid p.
C24_DegenerateRingCentroidIsMean ==
    (phase = "loaded" /\ result["op"] = "_load_zones" /\ value # <<>>
        /\ RingDegenerate(RingVertices(value)))
        => <<result["zones"][1]["lon"], result["zones"][1]["lat"]>>
               = RingMean(RingVertices(value))

\* ---------------------------------------------------------------------------
\* SpecDepartures: _compute_trip_departures on a stop_times table built row by row
\* ---------------------------------------------------------------------------

MaxStopTimes == 3

\* rows of two trips, with a first, a second or no stop_sequence, and a
\* departure_time that parses or is empty
StopTimeChoices ==
    {[StopTimeRow EXCEPT !["trip_id"] = trip_id, !["stop_sequence"] = stop_sequence,
                         !["departure_time"] = departure_time] :
         trip_id \in {"T1", "T2"}, stop_sequence \in {"", "1", "2"},
         departure_time \in {"06:00:00", "07:30:00", ""}}

AddStopTime ==
    /\ phase = "input"
    /\ Len(value) < MaxStopTimes
    /\ \E row \in StopTimeChoices : value' = Append(value, row)
    /\ UNCHANGED <<dayTypeVars, registryVars, storeVars, runs>>

\* _compute_trip_departures(stop_times)
ComputeDepartures ==
    /\ phase = "input"
    /\ result' = [op |-> "_compute_trip_departures",
                  outcome |-> IF CanComputeDepartures(value) THEN "returned"
                              ELSE "ValueError",
                  departures |-> IF CanComputeDepartures(value)
                                 THEN _compute_trip_departures(value) ELSE <<>>]
    /\ phase' = "computed"
    /\ UNCHANGED <<calendar, day_types, registry, clock, lastUpsert, previous, storeVars,
                   runs, value>>

NextDepartures == AddStopTime \/ ComputeDepartures

SpecDepartures == InitZones /\ [][NextDepartures]_vars

\* the rows (by position) of a trip that no other row of the trip precedes: the
\* lowest stop_sequence value, and among equals the first of the table
LeadingRows(trip_id) ==
    {j \in 1..Len(value) :
        /\ value[j]["trip_id"] = trip_id
        /\ \A k \in 1..Len(value) :
               value[k]["trip_id"] = trip_id =>
                   \/ SequenceOf(value[j]) < SequenceOf(value[k])
                   \/ SequenceOf(value[j]) = SequenceOf(value[k]) /\ j <= k}

DeparturesComputed == phase = "computed" /\ result["op"] = "_compute_trip_departures"

\* C25: _compute_trip_departures gives every trip that has a stop_times row the
\* departure time of its row with the lowest stop_sequence, the first such row of
\* the table when several share it; the departure times of the trip's other rows
\* are not parsed: it fails exactly when one of the rows it keeps does not parse.
C25_DepartureOfLowestSequenceFirstWins ==
    DeparturesComputed =>
        /\ result["outcome"] = "returned" <=>
               \A j \in 1..Len(value) :
                   j \in LeadingRows(value[j]["trip_id"]) => value[j]["departure_time"] # ""
        /\ result["outcome"] = "returned" =>
               /\ DOMAIN result["departures"] = {value[j]["trip_id"] : j \in 1..Len(value)}
               /\ \A j \in 1..Len(value) :
                      j \in LeadingRows(value[j]["trip_id"]) =>
                          result["departures"][value[j]["trip_id"]]
                              = parse_gtfs_time(TextChars[value[j]["departure_time"]])["seconds"]

\* a trip whose lowest stop_sequence comes in the table after a row of the trip
\* whose departure time does not parse: the call returns 07:30:00 of the later row
C25_Witness ==
    /\ DeparturesComputed
    /\ result["outcome"] = "returned"
    /\ \E j, k \in 1..Len(value) :
           /\ j < k /\ value[j]["trip_id"] = value[k]["trip_id"]
           /\ SequenceOf(value[k]) < SequenceOf(value[j])
           /\ value[j]["departure_time"] = ""
           /\ result["departures"][value[k]["trip_id"]] = 27000

\* C26: with bucket width w = timebin_minutes * 60 seconds, every trip of a day
\* type that has a departure d is counted in exactly one compute_headways record
\* of that day type, the one of its route, its direction and
\* timebin_start = floor(d / w) * w; timebin_start is a multiple of w with
\* timebin_start <= d < timebin_start + w, and every percentile that is not null
\* is >= 0 and < timebin_minutes (percentiles are in 1/600 of a minute).
C26_TripsPartitionedIntoBuckets ==
    HeadwaysReturned =>
        LET w == result["timebin_minutes"] * 60
            records == result["records"]
            Holding(pair) ==
                {j \in 1..Len(records) :
                    /\ records[j]["day_type_id"] = pair[1]
                    /\ records[j]["route_id"] = SnapshotTrips[pair[2]]["route_id"]
                    /\ records[j]["direction_id"]
                           = _normalise_direction(SnapshotTrips[pair[2]]["direction_id"])
                    /\ records[j]["timebin_start"] <= DepartureOfTrip(pair[2])
                    /\ DepartureOfTrip(pair[2]) < records[j]["timebin_start"] + w}
        IN  /\ \A pair \in DayTripPairs :
                   /\ Cardinality(Holding(pair)) = 1
                   /\ \A j \in Holding(pair) :
                          records[j]["timebin_start"] = (DepartureOfTrip(pair[2]) \div w) * w
            /\ SumDepartures(records) = Cardinality(DayTripPairs)
            /\ \A j \in 1..Len(records) :
                   /\ records[j]["timebin_start"] % w = 0
                   /\ \A key \in {"headway_p50_min", "headway_p90_min"} :
                          records[j][key] # <<>> =>
                              /\ records[j][key][1] >= 0
                              /\ records[j][key][1] < result["timebin_minutes"] * 600

\* three trips of one line and day type, two in the bucket of 06:00 and one in
\* the bucket of 07:00: two records, 2 and 1 departures, a headway of 7 minutes
C26_Witness ==
    /\ HeadwaysReturned
    /\ result["timebin_minutes"] = 15
    /\ \E i, j \in 1..Len(result["records"]) :
           /\ result["records"][i]["day_type_id"] = result["records"][j]["day_type_id"]
           /\ result["records"][i]["route_id"] = result["records"][j]["route_id"]
           /\ result["records"][i]["direction_id"] = result["records"][j]["direction_id"]
           /\ result["records"][i]["timebin_start"] = 21600
           /\ result["records"][i]["departures"] = 2
           /\ result["records"][i]["headway_p50_min"] = <<4200>>
           /\ result["records"][j]["timebin_start"] = 25200
           /\ result["records"][j]["departures"] = 1

\* ---------------------------------------------------------------------------
\* SpecPercentile: _percentile on a list of samples built one by one, called on
\* the list and on a reordering of it
\* ---------------------------------------------------------------------------

MaxSamples == 4

\* gaps of 1, 5 and 7 minutes, in seconds
SampleChoices == {60, 300, 420}

\* the fractions compute_headways asks for (lines 97-98), in tenths
PercentileTenths == {5, 9}

AddSample ==
    /\ phase = "input"
    /\ Len(value) < MaxSamples
    /\ \E sample \in SampleChoices : value' = Append(value, sample)
    /\ UNCHANGED <<dayTypeVars, registryVars, storeVars, runs>>

\* _percentile(values, p), then _percentile(reordered, p)
ComputePercentile ==
    /\ phase = "input"
    /\ \E tenths \in PercentileTenths :
           \E order \in {f \in [1..Len(value) -> 1..Len(value)] :
                            \A i, j \in 1..Len(value) : f[i] = f[j] => i = j} :
               result' = [op |-> "_percentile",
                          tenths |-> tenths,
                          reordered |-> [i \in 1..Len(value) |-> value[order[i]]],
                          first |-> _percentile(value, tenths),
                          second |-> _percentile([i \in 1..Len(value) |-> value[order[i]]],
                                                 tenths)]
    /\ phase' = "computed"
    /\ UNCHANGED <<calendar, day_types, registry, clock, lastUpsert, previous, storeVars,
                   runs, value>>

NextPercentile == AddSample \/ ComputePercentile

SpecPercentile == InitZones /\ [][NextPercentile]_vars

\* the samples in ascending order, as positions of value: rank r holds the
\* sample that has r samples before it
SampleAtRank(rank) ==
    LET Before(i) ==
            Cardinality({j \in 1..Len(value) :
                            value[j] < value[i] \/ (value[j] = value[i] /\ j < i)})
    IN  value[CHOOSE i \in 1..Len(value) : Before(i) = rank]

\* C27: for n >= 2 samples and the fraction p, with position = (n - 1) * p,
\* _percentile returns the sample of rank position when position is integral and
\* lower + frac * (upper - lower) otherwise, lower and upper being the samples of
\* ranks floor(position) and ceil(position); a second call on the same samples in
\* another order returns the same result (results are in tenths of a second).
C27_PercentileInterpolatesAndIgnoresOrder ==
    (phase = "computed" /\ result["op"] = "_percentile" /\ Len(value) >= 2) =>
        LET position == (Len(value) - 1) * result["tenths"]
            lower == SampleAtRank(position \div 10)
            upper == SampleAtRank((position + 9) \div 10)
        IN  /\ position % 10 = 0 => result["first"] = 10 * SampleAtRank(position \div 10)
            /\ position % 10 # 0 =>
                   result["first"] = 10 * lower + (position % 10) * (upper - lower)
            /\ result["second"] = result["first"]

\* 7, 1 and 5 minutes at p = 0.9: position 1.8, 300 + 0.8 * 120 = 396 seconds,
\* also for the samples in another order
C27_Witness ==
    /\ phase = "computed" /\ result["op"] = "_percentile"
    /\ value = <<420, 60, 300>>
    /\ result["tenths"] = 9
    /\ result["reordered"] # value
    /\ result["first"] = 3960
    /\ result["second"] = 3960

\* ---------------------------------------------------------------------------
\* SpecPartial: the three engines on snapshots whose calendar mixes canonical
\* and irregular services, each service running one trip at a stop of its own
\* ---------------------------------------------------------------------------

EveryDayFlags == [k \in Range(DayKeys) |-> "1"]

\* S1 irregular beside a weekday service; S2 irregular beside a sunday
\* service; two irregular services and no canonical one
PartialCalendars ==
    {<<CalendarRow("S2", WeekdayFlags), CalendarRow("S1", OnlyDayFlags("monday"))>>,
     <<CalendarRow("S1", OnlyDayFlags("sunday")), CalendarRow("S2", EveryDayFlags)>>,
     <<CalendarRow("S1", OnlyDayFlags("monday")), CalendarRow("S2", EveryDayFlags)>>}

PartialTemplates ==
    {TripTemplate("S1", "R1", "0", "06:00:00"),
     TripTemplate("S2", "R1", "0", "06:07:00"),
     TripTemplate("S1", "R2", "0", "06:00:00"),
     TripTemplate("S2", "R1", "0", "none")}

AtStop(rows, stop_id) == [i \in DOMAIN rows |-> [rows[i] EXCEPT !["stop_id"] = stop_id]]

InitPartial ==
    /\ calendar \in PartialCalendars
    /\ day_types = <<>>
    /\ phase = "stored"
    /\ registry = SnapshotRegistry
    /\ clock = 1
    /\ lastUpsert = (SnapshotFeed :> SnapshotRegistry["feeds"][1])
    /\ result = [op |-> "none"]
    /\ dirs = {FeedDir(SnapshotFeed)}
    /\ files \in {AccessSnapshotOf(calendar, <<TripOf("T1", first), TripOf("T2", second)>>,
                                   AtStop(StopTimesOf("T1", first), "P1")
                                       \o AtStop(StopTimesOf("T2", second), "P2")) :
                      first \in PartialTemplates, second \in PartialTemplates}
    /\ previous = [result |-> [op |-> "none"], registry |-> registry, files |-> files]
    /\ runs = <<>>
    /\ value = <<>>

SpecPartial == InitPartial /\ [][NextEngines]_vars

\* the canonical rules on the seven flags of a calendar.txt row
CanonicalRule(row, day_type_id) ==
    CASE day_type_id = "WEEKDAY" ->
             /\ \A k \in Range(WeekdayKeys) : row[k] = "1"
             /\ row["saturday"] = "0" /\ row["sunday"] = "0"
      [] day_type_id = "SATURDAY" ->
             /\ row["saturday"] = "1"
             /\ \A k \in Range(DayKeys) \ {"saturday"} : row[k] = "0"
      [] day_type_id = "SUNDAY" ->
             /\ row["sunday"] = "1"
             /\ \A k \in Range(DayKeys) \ {"sunday"} : row[k] = "0"

CanonicalIds == {"WEEKDAY", "SATURDAY", "SUNDAY"}

RuleServices(day_type_id) ==
    IF day_type_id \notin CanonicalIds THEN {}
    ELSE {calendar[i]["service_id"] :
             i \in {r \in 1..Len(calendar) : CanonicalRule(calendar[r], day_type_id)}}

IrregularServices ==
    {calendar[i]["service_id"] :
        i \in {r \in 1..Len(calendar) :
                  \A day_type_id \in CanonicalIds : ~CanonicalRule(calendar[r], day_type_id)}}

SomeServiceCanonical == \E day_type_id \in CanonicalIds : RuleServices(day_type_id) # {}

\* the trips (by position) with a stop time that run under a canonical rule of
\* the day type on the route and in the direction
RuleTrips(day_type_id, route_id, direction) ==
    {i \in 1..Len(SnapshotTrips) :
        /\ SnapshotTrips[i]["service_id"] \in RuleServices(day_type_id)
        /\ HasDeparture(i)
        /\ SnapshotTrips[i]["route_id"] = route_id
        /\ _normalise_direction(SnapshotTrips[i]["direction_id"]) = direction}

\* the stops (by position in dim_stop) where such a trip calls
RuleStops(day_type_id) ==
    LET dim_stop == LoadTable(SnapshotFeed, "derived", "dim_stop")
    IN  {s \in 1..Len(dim_stop) :
            \E t \in 1..Len(SnapshotTrips), r \in 1..Len(SnapshotStopTimes) :
                /\ SnapshotTrips[t]["service_id"] \in RuleServices(day_type_id)
                /\ SnapshotStopTimes[r]["trip_id"] = SnapshotTrips[t]["trip_id"]
                /\ SnapshotStopTimes[r]["stop_id"] = dim_stop[s]["stop_id"]}

EngineReturned(op) == result["op"] = op /\ result["outcome"] = "returned"

\* C28: when at least one calendar service matches a canonical rule, dim_calendar
\* has no "ALL" day type and lists no service that matches none of the rules; so
\* every compute_headways record and every compute_service_kpis record counts
\* only the trips of services matching the rule of its day type, and every
\* compute_accessibility record counts only the stops where such trips call
\* (both stops lie within every threshold of the zone used here).
C28_IrregularServicesDroppedWhenSomeCanonical ==
    SomeServiceCanonical =>
        \A dim_calendar \in {LoadTable(SnapshotFeed, "derived", "dim_calendar")} :
            /\ \A d \in 1..Len(dim_calendar) :
                   /\ dim_calendar[d]["day_type_id"] # "ALL"
                   /\ Range(dim_calendar[d]["service_ids"]) \cap IrregularServices = {}
            /\ EngineReturned("compute_headways") =>
                   \A i \in 1..Len(result["records"]) :
                       LET record == result["records"][i]
                           bin_seconds == result["timebin_minutes"] * 60
                       IN  record["departures"]
                               = Cardinality({t \in RuleTrips(record["day_type_id"],
                                                              record["route_id"],
                                                              record["direction_id"]) :
                                                 (DepartureOfTrip(t) \div bin_seconds) * bin_seconds
                                                     = record["timebin_start"]})
            /\ EngineReturned("compute_service_kpis") =>
                   \A i \in 1..Len(result["records"]) :
                       LET record == result["records"][i]
                       IN  record["departures"]
                               = Cardinality(RuleTrips(record["day_type_id"], record["route_id"],
                                                       record["direction_id"]))
            /\ EngineReturned("compute_accessibility") =>
                   \A i \in 1..Len(result["records"]) :
                       result["records"][i]["stops_reachable"]
                           = Cardinality(RuleStops(result["records"][i]["day_type_id"]))

\* a canonical service and an irregular one, each with a trip that has stop
\* times, and the three engines called, the last returning records
C28_Witness ==
    /\ SomeServiceCanonical
    /\ \E i, j \in 1..Len(SnapshotTrips) :
           /\ SnapshotTrips[i]["service_id"] \in IrregularServices /\ HasDeparture(i)
           /\ SnapshotTrips[j]["service_id"] \notin IrregularServices /\ HasDeparture(j)
    /\ Len(value) = 3
    /\ Range(value) = {"compute_headways", "compute_service_kpis", "compute_accessibility"}
    /\ result["outcome"] = "returned" /\ result["records"] # <<>>

\* ---------------------------------------------------------------------------
\* SpecCompare: compute_headways and compute_service_kpis called on one stored
\* snapshot of three trips, the lists they return kept side by side
\* ---------------------------------------------------------------------------

MaxRuns == 2

CompareTemplates ==
    {TripTemplate("S1", "R1", "0", "06:00:00"),
     TripTemplate("S1", "R1", "0", "06:07:00"),
     TripTemplate("S1", "R1", "0", "07:00:00"),
     TripTemplate("S1", "R1", "", "06:00:00"),
     TripTemplate("S2", "R1", "0", "06:07:00"),
     TripTemplate("S1", "R2", "0", "06:00:00"),
     TripTemplate("S1", "R1", "0", "none")}

InitCompare ==
    /\ calendar \in HeadwayCalendars
    /\ day_types = <<>>
    /\ phase = "stored"
    /\ registry = SnapshotRegistry
    /\ clock = 1
    /\ lastUpsert = (SnapshotFeed :> SnapshotRegistry["feeds"][1])
    /\ result = [op |-> "none"]
    /\ previous = [op |-> "none"]
    /\ dirs = {FeedDir(SnapshotFeed)}
    /\ files \in {SnapshotOf(calendar,
                             <<TripOf("T1", first), TripOf("T2", second), TripOf("T3", third)>>,
                             StopTimesOf("T1", first) \o StopTimesOf("T2", second)
                                 \o StopTimesOf("T3", third)) :
                      first \in CompareTemplates, second \in CompareTemplates,
                      third \in CompareTemplates}
    /\ runs = <<>>
    /\ value = <<>>

\* the timebin_minutes argument: omitted, 0, or 60
TimebinGiven == {<<>>, <<0>>, <<60>>}

\* compute_headways(feed_dir, timebin_minutes=...), its list kept by the caller
RunHeadways ==
    /\ Len(runs) < MaxRuns
    /\ \E given \in TimebinGiven :
       \E timebin_minutes \in {NumberOrDefault(given, settings_timebin_minutes)} :
           /\ result' = [op |-> "compute_headways",
                         given |-> given,
                         timebin_minutes |-> timebin_minutes,
                         outcome |-> AnalyticsOutcome(SnapshotFeed),
                         records |-> IF AnalyticsOutcome(SnapshotFeed) = "returned"
                                     THEN compute_headways(SnapshotFeed, timebin_minutes)
                                     ELSE <<>>]
           /\ runs' = Append(runs, result')
    /\ files' = StoreAfterLoading(files)
    /\ UNCHANGED <<dayTypeVars, registry, clock, lastUpsert, previous, dirs, value>>

\* compute_service_kpis(feed_dir), its list kept by the caller
RunServiceKpis ==
    /\ Len(runs) < MaxRuns
    /\ result' = [op |-> "compute_service_kpis",
                  outcome |-> AnalyticsOutcome(SnapshotFeed),
                  records |-> IF AnalyticsOutcome(SnapshotFeed) = "returned"
                              THEN compute_service_kpis(SnapshotFeed)
                              ELSE <<>>]
    /\ runs' = Append(runs, result')
    /\ files' = StoreAfterLoading(files)
    /\ UNCHANGED <<dayTypeVars, registry, clock, lastUpsert, previous, dirs, value>>

NextCompare == RunHeadways \/ RunServiceKpis

SpecCompare == InitCompare /\ [][NextCompare]_vars

\* the (day-type, route, direction) of a record
LineOf(record) == <<record["day_type_id"], record["route_id"], record["direction_id"]>>

LinesOf(records) == {LineOf(records[i]) : i \in 1..Len(records)}

\* the runs (by position) of an engine that returned
ReturnedRuns(op) ==
    {r \in 1..Len(runs) : runs[r]["op"] = op /\ runs[r]["outcome"] = "returned"}

\* C29: for one snapshot and whatever the bucket width, the (day-type, route,
\* direction) keys of the compute_headways records are those of the
\* compute_service_kpis records, and for every key the departures of the
\* compute_headways records of that key add up to the departures of the
\* compute_service_kpis record of that key.
C29_HeadwayDeparturesAddUpToKpiDepartures ==
    \A h \in ReturnedRuns("compute_headways"), k \in ReturnedRuns("compute_service_kpis") :
        \A headways \in {runs[h]["records"]}, kpis \in {runs[k]["records"]} :
            /\ LinesOf(headways) = LinesOf(kpis)
            /\ \A j \in 1..Len(kpis) :
                   LET OfLine(record) == LineOf(record) = LineOf(kpis[j])
                   IN  /\ SumDepartures(SelectSeq(headways, OfLine)) = kpis[j]["departures"]
                       /\ Len(SelectSeq(kpis, OfLine)) = 1

\* both engines have returned; one key has two departures, each in a bucket of
\* its own, and there is a second key
C29_Witness ==
    \E h \in ReturnedRuns("compute_headways"), k \in ReturnedRuns("compute_service_kpis") :
        /\ Cardinality(LinesOf(runs[k]["records"])) >= 2
        /\ \E j \in 1..Len(runs[k]["records"]) :
               LET OfLine(record) == LineOf(record) = LineOf(runs[k]["records"][j])
               IN  /\ runs[k]["records"][j]["departures"] = 2
                   /\ Len(SelectSeq(runs[h]["records"], OfLine)) = 2

====
